---------------------------- MODULE Spec2Model ----------------------------
(* The C boundary of vello_cpu_ffi: the thread-local Last-Error Slot, the   *)
(* ffi_catch guards, the null and range checks of the entry points, and the *)
(* drawing state, recording and caller memory those entry points act on.    *)
(* A behaviour is a sequence of boundary calls made by the calling threads. *)
EXTENDS Integers, Sequences, FiniteSets, TLC

(***************************************************************************)
(* Bounds of the model                                                     *)
(***************************************************************************)
\* calls made in one behaviour
MaxCalls == 2
\* largest stop_count a gradient setter is called with
MaxStops == 2
\* largest max_glyphs text_to_glyphs is called with
MaxGlyphs == 1
\* handles of one kind the caller creates and holds at a time
MaxHandles == 2
\* calls made on the recording in a behaviour of SpecRecording
MaxRecordingCalls == 5
\* calls made in a behaviour of SpecSession
MaxSessionCalls == 3

(***************************************************************************)
(* Status codes (types.rs)                                                 *)
(***************************************************************************)
VELLO_OK == 0
VELLO_ERROR_NULL_POINTER == -1
VELLO_ERROR_RENDER_FAILED == -3
VELLO_ERROR_INVALID_PARAMETER == -5

(***************************************************************************)
(* Values                                                                  *)
(***************************************************************************)
Threads == {"t1", "t2"}

\* the null pointer, and the live handles the caller holds
NULL == "null"
CTX == "ctx"
REC == "recording"
PIXMAP == "pixmap"
MASK == "mask"
FONT == "font"
RECORDER == "recorder"
PATH == "path"

\* Option<T>: None, or Some(x)
None == <<>>
Some(x) == <<x>>

\* a pointer to a struct the caller filled in: null, or the struct behind it
NullPtr == <<>>
PtrTo(S) == {<<v>> : v \in S}

\* A Rust String is a sequence of chunks of text; NUL is the zero byte.
NUL == "\\0"

\* the payload of a panic: a &str, a String, or any other value; NoPanic is
\* a body that ran to its end
NoPanic == [kind |-> "none", text |-> <<>>]
Payloads ==
    { [kind |-> "str", text |-> <<"index out of bounds">>],
      [kind |-> "String", text |-> <<>>],
      [kind |-> "other", text |-> <<>>] }
Panics == {NoPanic} \cup Payloads

(***************************************************************************)
(* error.rs                                                                *)
(***************************************************************************)
\* CString::new: fails on an interior zero byte
CString_new(s) ==
    IF \E i \in 1..Len(s) : s[i] = NUL THEN None ELSE Some(s)

\* set_last_error on a slot that is a plain static, shared by the threads
set_last_error_shared(slots, t, err) ==
    LET c == CString_new(err)
    IN  IF c # None THEN [u \in DOMAIN slots |-> Some(c[1])] ELSE slots

\* set_last_error on thread t: the slot is written only if the text converts
set_last_error(slots, t, err) ==
    LET c == CString_new(err)
    IN  IF c # None THEN [slots EXCEPT ![t] = Some(c[1])] ELSE slots

\* the message ffi_catch builds from the payload of a panic
PanicMessage(e) ==
    IF e.kind = "str" THEN e.text
    ELSE IF e.kind = "String" THEN e.text
    ELSE <<"Unknown panic occurred">>

\* What one boundary call did: the status, pointer or value it returned, the
\* message it passed to set_last_error, whether it entered a guarded body,
\* whether a panic left the function, whether its body ran to its end.
Ret(status) ==
    [status |-> status, ptr |-> NULL, value |-> 0, err |-> None,
     entered |-> FALSE, escaped |-> FALSE, done |-> TRUE, panic |-> NoPanic,
     passed |-> None]
RetPtr(p) == [Ret(0) EXCEPT !.ptr = p]
RetValue(v) == [Ret(0) EXCEPT !.value = v]

\* set_last_error(msg); return status
Reject(status, msg) == [Ret(status) EXCEPT !.err = Some(msg), !.done = FALSE]
\* set_last_error(msg); return std::ptr::null_mut()
RejectPtr(msg) == [RetPtr(NULL) EXCEPT !.err = Some(msg), !.done = FALSE]
\* set_last_error(msg); return 0
RejectValue(msg) == [RetValue(0) EXCEPT !.err = Some(msg), !.done = FALSE]
\* return status, with no set_last_error
RejectSilent(status) == [Ret(status) EXCEPT !.done = FALSE]

\* ffi_catch that returns the status of a panic without recording a message
ffi_catch_without_message(panic, result) ==
    IF panic = NoPanic
    THEN [result EXCEPT !.entered = TRUE]
    ELSE [RejectSilent(VELLO_ERROR_RENDER_FAILED) EXCEPT !.entered = TRUE, !.panic = panic]

\* ffi_catch!(body): catch_unwind around the body; a panic becomes
\* VELLO_ERROR_RENDER_FAILED and the message "Panic: ..."
ffi_catch(panic, result) ==
    IF panic = NoPanic
    THEN [result EXCEPT !.entered = TRUE]
    ELSE [Reject(VELLO_ERROR_RENDER_FAILED, <<"Panic: ">> \o PanicMessage(panic))
            EXCEPT !.entered = TRUE, !.panic = panic]

\* ffi_catch_ptr!(body): the same, a panic becomes the null pointer
ffi_catch_ptr(panic, result) ==
    IF panic = NoPanic
    THEN [result EXCEPT !.entered = TRUE]
    ELSE [RejectPtr(<<"Panic: ">> \o PanicMessage(panic))
            EXCEPT !.entered = TRUE, !.panic = panic]

\* a body with no catch_unwind around it: a panic unwinds out of the
\* extern "C" function and nothing is returned
Unguarded(panic, result) ==
    IF panic = NoPanic
    THEN result
    ELSE [Ret(0) EXCEPT !.escaped = TRUE, !.done = FALSE, !.panic = panic]

(***************************************************************************)
(* The values the calls are made with                                      *)
(***************************************************************************)
\* VelloAffine values (fields m11, m12, m13, m21, m22, m23)
AffineInputs ==
    { [m11 |-> 1, m12 |-> 0, m13 |-> 0, m21 |-> 0, m22 |-> 1, m23 |-> 0],
      [m11 |-> 2, m12 |-> 3, m13 |-> 4, m21 |-> 5, m22 |-> 6, m23 |-> 7] }

\* kurbo::Affine::new(c): the six coefficients, in kurbo's order
Affine_new(c) == c
IDENTITY == Affine_new(<<1, 0, 0, 1, 0, 0>>)

\* VelloStroke values: width and miter_limit are f32 values, join and the
\* caps are the tags of VelloJoin (Bevel = 0, Miter = 1, Round = 2) and of
\* VelloCap (Butt = 0, Square = 1, Round = 2)
StrokeInputs ==
    { [width |-> 1, miter_limit |-> 4, join |-> 1, start_cap |-> 0, end_cap |-> 0],
      [width |-> 3, miter_limit |-> 7, join |-> 0, start_cap |-> 2, end_cap |-> 1] }

\* `x as f64` of an f32: the same number; the 29 bits of mantissa an f64 has
\* more than an f32 (low) are zero
f32_as_f64(x) == [f32 |-> x, low |-> 0]

\* `y as f32` of an f64: the nearest f32, a tie going to the even one
f64_as_f32(y) ==
    IF y.low > 2^28 \/ (y.low = 2^28 /\ y.f32 % 2 = 1) THEN y.f32 + 1 ELSE y.f32

\* the matches of set_stroke: kurbo's Join and Cap of a tag
KurboOf ==
    [join |-> [j \in 0..2 |-> <<"Bevel", "Miter", "Round">>[j + 1]],
     cap |-> [c \in 0..2 |-> <<"Butt", "Square", "Round">>[c + 1]]]

\* the matches of a get_stroke that takes Square for Round and Round for Square
VelloOf_caps_swapped ==
    [join |-> [Bevel |-> 0, Miter |-> 1, Round |-> 2],
     cap |-> [Butt |-> 0, Square |-> 2, Round |-> 1]]

\* the matches of get_stroke: the tag of kurbo's Join and Cap
VelloOf ==
    [join |-> [Bevel |-> 0, Miter |-> 1, Round |-> 2],
     cap |-> [Butt |-> 0, Square |-> 1, Round |-> 2]]

\* kurbo::Stroke { width: s.width as f64, join, start_cap, end_cap,
\* miter_limit: s.miter_limit as f64, ..Default::default() }
Stroke_from(s) ==
    [width |-> f32_as_f64(s.width), join |-> KurboOf.join[s.join],
     start_cap |-> KurboOf.cap[s.start_cap], end_cap |-> KurboOf.cap[s.end_cap],
     miter_limit |-> f32_as_f64(s.miter_limit)]

\* the VelloStroke get_stroke writes
VelloStroke_from(stroke) ==
    [width |-> f64_as_f32(stroke.width),
     miter_limit |-> f64_as_f32(stroke.miter_limit),
     join |-> VelloOf.join[stroke.join],
     start_cap |-> VelloOf.cap[stroke.start_cap],
     end_cap |-> VelloOf.cap[stroke.end_cap]]

FillRules == {"NonZero", "EvenOdd"}

\* the colour (r, g, b, a) and the VelloRect the calls are made with
ColorInputs == {[r |-> 10, g |-> 20, b |-> 30, a |-> 40]}
RectInputs == {[x0 |-> 1, y0 |-> 2, x1 |-> 3, y1 |-> 4]}

\* Color::from_rgba8(r, g, b, a): the components, in the order r, g, b, a
Color_from_rgba8(r, g, b, a) == <<r, g, b, a>>

\* kurbo::Rect::new(x0, y0, x1, y1)
Rect_new(x0, y0, x1, y1) == [x0 |-> x0, y0 |-> y0, x1 |-> x1, y1 |-> y1]

\* VelloFillRule as the integer the getter returns
FillRuleTag(f) == IF f = "NonZero" THEN 0 ELSE 1

\* the images the caller holds: |alpha - 1.0| of each sampler, in units of
\* f32::EPSILON
ImageAlphaDelta == [opaque |-> 0, nearly |-> 1, half |-> 4194304]
\* the image whose sampler has an alpha that is not a number (the images the
\* caller creates have an alpha of 1.0)
ImageAlphaNaN == {"not_a_number"}
Images == DOMAIN ImageAlphaDelta \cup ImageAlphaNaN

\* (image.sampler.alpha - 1.0).abs() > f32::EPSILON: false of a NaN, as
\* every comparison with one is
opacity_unsupported(image) ==
    image \in DOMAIN ImageAlphaDelta /\ ImageAlphaDelta[image] > 1

\* the pixmap PIXMAP and the pixel Pixmap::sample gives
PixmapWidth == 2
PixmapHeight == 1
Pixmap_sample(x, y) == 1 + x + y * PixmapWidth

\* the mask MASK was made from PIXMAP
Mask_width == PixmapWidth
Mask_height == PixmapHeight

\* the addresses Box::into_raw gives the handles the caller creates
Heap ==
    [context |-> <<"context_1", "context_2", "context_3">>,
     pixmap |-> <<"pixmap_1", "pixmap_2", "pixmap_3">>,
     path |-> <<"path_1", "path_2", "path_3">>,
     mask |-> <<"mask_1", "mask_2", "mask_3">>,
     image |-> <<"image_1", "image_2", "image_3">>,
     font |-> <<"font_1", "font_2", "font_3">>,
     recording |-> <<"recording_1", "recording_2", "recording_3">>]

HandleKinds == DOMAIN Heap

Addresses(kind) == {Heap[kind][i] : i \in 1..MaxHandles}

\* the caller holds fewer than MaxHandles handles of this kind
HasRoom(kind, l) == Addresses(kind) \ l # {}

\* Box::into_raw(Box::new(..)) at the end of a constructor: the address of
\* the new box, one that no live handle has
Box_into_raw(kind, l, r) ==
    IF r.done
    THEN LET free == {i \in 1..MaxHandles : Heap[kind][i] \notin l}
             first == CHOOSE i \in free : \A j \in free : i <= j
         IN  [r EXCEPT !.ptr = Heap[kind][first]]
    ELSE r

\* the live handles after a constructor returned r
Allocated(l, r) == IF r.done THEN l \cup {r.ptr} ELSE l

\* a free that forgets the box instead of dropping it
Box_from_raw_forget(l, p) == l

\* drop(Box::from_raw(p)) under `if !p.is_null()`: what every free does
Box_from_raw_drop(l, p) == IF p # NULL THEN l \ {p} ELSE l

\* pixels a handle owns (value is their size), and pixels that are those of
\* another handle (ref)
Own(v) == [own |-> TRUE, ref |-> NULL, value |-> v]
Borrowed(p) == [own |-> FALSE, ref |-> p, value |-> <<>>]

\* no box is at the address
Unallocated == Own(<<>>)

\* the addresses of the pixmaps, images and masks
Pixmaps == {PIXMAP} \cup Addresses("pixmap")
Holders == {MASK} \cup Images \cup Addresses("image") \cup Addresses("mask")

\* the pixels seen through the handle at address p
PixelsOf(h, p) == IF h[p].own THEN h[p].value ELSE h[h[p].ref].value

\* an image that keeps the caller's pixmap instead of a copy of it
Pixmap_borrow(h, p) == Borrowed(p)

\* pixmap.clone(), and the data Mask::new_alpha computes from the pixmap: a
\* copy of the pixels as they are now
Pixmap_clone(h, p) == Own(h[p].value)

\* image.clone() and mask.clone(): the pixels of the image (kept by its Arc)
\* and the data of the mask, as they are now
Holder_clone(h, p) == Own(PixelsOf(h, p))

\* the box a constructor that returned r has put at r.ptr
Boxed(h, r, pixels) == IF r.done THEN [h EXCEPT ![r.ptr] = pixels] ELSE h

\* drop(Box::from_raw(p)) on the pixels
Dropped(h, p) == IF p \in DOMAIN h THEN [h EXCEPT ![p] = Unallocated] ELSE h

VARIABLES
    lastError,  \* LAST_ERROR of each thread: None or Some(message)
    boundary,   \* "intact", or "escaped" once a panic left an extern "C" fn
    ctx,        \* the context CTX: its size and drawing state
    rec,        \* the recording REC: its command log and its cache
    out,        \* the caller's memory behind the out-pointers it passes
    session,    \* Some(t) while thread t is inside the callback of record
    cbCalls,    \* the invocations of callbacks by record, in order
    call,       \* the boundary call just made, what it returned, the panic
                \* raised in it, and the slot content a clear dropped
    ncalls,     \* calls made so far
    budget,     \* calls the behaviour makes at most
    build,      \* the target the library was built for
    live,       \* the handles that were returned and not freed
    heap        \* the pixels each pixmap, image and mask holds

vars == <<lastError, boundary, ctx, rec, out, session, cbCalls, call, ncalls,
          budget, build, live, heap>>

\* what no call changes
fixed == <<budget, build>>

engine == <<ctx, rec, out, cbCalls>>

\* the memory at out_glyphs before a call: the caller's array is its first
\* max_glyphs entries, the caller's other memory follows it
Unwritten == [id |-> 65535, x |-> 0, y |-> 0]
GlyphMemory == [i \in 0..MaxGlyphs |-> Unwritten]

NoCall ==
    [op |-> "none", thread |-> "t1", kind |-> "void", status |-> 0,
     ptr |-> NULL, value |-> 0, text |-> None, err |-> None,
     entered |-> FALSE, failed |-> FALSE, panic |-> NoPanic, cleared |-> None,
     passed |-> None, args |-> <<>>]

\* RenderContext::new(width, height): the drawing state of a new context
RenderContext_new(width, height) ==
    [width |-> width, height |-> height,
     paint |-> [kind |-> "solid", stops |-> 0, color |-> Color_from_rgba8(0, 0, 0, 255)],
     transform |-> IDENTITY,
     drawn |-> [FillRect |-> None, StrokeRect |-> None],
     paint_transform |-> IDENTITY,
     aliasing_threshold |-> None,
     made |-> {},
     layers |-> <<>>,
     stroke |-> [width |-> f32_as_f64(1), miter_limit |-> f32_as_f64(4),
                 join |-> "Miter", start_cap |-> "Butt", end_cap |-> "Butt"],
     fill_rule |-> "NonZero"]

\* Recording::new(): no commands, no cache
Recording_new == [commands |-> <<>>, strips |-> 0, alphas |-> 0]

\* usize is 64 bits wide on the 64-bit targets, 32 bits wide on the 32-bit
\* ones; overflow_checks is on in a debug build and off in a release build
Build64 == [usize_bits |-> 64, overflow_checks |-> FALSE]
Builds ==
    { Build64,
      [usize_bits |-> 32, overflow_checks |-> FALSE],
      [usize_bits |-> 32, overflow_checks |-> TRUE] }

\* the state after construction, whatever the build and the budget
Start ==
    /\ lastError = [t \in Threads |-> None]
    /\ boundary = "intact"
    /\ ctx = RenderContext_new(2, 1)
    /\ rec = Recording_new
    /\ out = [pixel |-> None, buffer |-> None, settings |-> None,
              glyphs |-> GlyphMemory, count |-> None,
              transform |-> None, stroke |-> None, render_settings |-> None,
              given |-> [transform |-> None, paint_transform |-> None,
                         stroke |-> None, settings |-> {}, fill_rule |-> None,
                         color |-> None, FillRect |-> None, StrokeRect |-> None]]
    /\ session = None
    /\ cbCalls = <<>>
    /\ call = NoCall
    /\ ncalls = 0
    /\ live = {CTX, REC, PIXMAP, MASK, FONT, PATH} \cup Images
    /\ heap = [p \in Pixmaps \cup Holders |->
                  IF p \in {PIXMAP, MASK} \cup Images
                  THEN Own(<<PixmapWidth, PixmapHeight>>)
                  ELSE Unallocated]

Init ==
    /\ Start
    /\ budget = MaxCalls
    /\ build = Build64

\* a thread can make a call: no panic has left the boundary, the caller has
\* taken the result of the call before, and the behaviour has calls left
Running == boundary = "intact" /\ call = NoCall /\ ncalls < budget

\* a call from outside the callback of record
Idle == Running /\ session = None

\* the caller takes the result of the call that has just returned
Return ==
    /\ boundary = "intact"
    /\ call # NoCall
    /\ call' = NoCall
    /\ UNCHANGED <<lastError, boundary, ctx, rec, out, session, cbCalls, ncalls, fixed, live, heap>>

\* The part every call shares: the slot of the calling thread is written if
\* the call passed a message to set_last_error, and the call is recorded.
Boundary(t, op, kind, args, r) ==
    /\ Running
    /\ UNCHANGED fixed
    /\ ncalls' = ncalls + 1
    /\ lastError' = IF r.err = None THEN lastError
                    ELSE set_last_error(lastError, t, r.err[1])
    /\ boundary' = IF r.escaped THEN "escaped" ELSE "intact"
    /\ call' = [op |-> op, thread |-> t,
                kind |-> IF r.escaped THEN "unwound" ELSE kind,
                status |-> r.status, ptr |-> r.ptr, value |-> r.value,
                text |-> None, err |-> r.err, entered |-> r.entered,
                failed |-> ~r.done, panic |-> r.panic, cleared |-> None,
                passed |-> r.passed, args |-> args]

(***************************************************************************)
(* error.rs: the two calls on the slot                                     *)
(***************************************************************************)
\* vello_get_last_error: the message of the caller's slot, or null
vello_get_last_error(slots, t) == slots[t]

GetLastError(t) ==
    /\ Running
    /\ ncalls' = ncalls + 1
    /\ call' = [NoCall EXCEPT !.op = "vello_get_last_error", !.thread = t,
                              !.kind = "text",
                              !.text = vello_get_last_error(lastError, t)]
    /\ UNCHANGED <<lastError, boundary, engine, session, fixed, live, heap>>

\* a clear that stores the empty string instead of None
vello_clear_last_error_to_empty(slots, t) == [slots EXCEPT ![t] = Some(<<>>)]

\* vello_clear_last_error: the caller's slot becomes None
vello_clear_last_error(slots, t) == [slots EXCEPT ![t] = None]

ClearLastError(t) ==
    /\ Running
    /\ ncalls' = ncalls + 1
    /\ lastError' = vello_clear_last_error(lastError, t)
    /\ call' = [NoCall EXCEPT !.op = "vello_clear_last_error", !.thread = t,
                              !.cleared = lastError[t]]
    /\ UNCHANGED <<boundary, engine, session, fixed, live, heap>>

(***************************************************************************)
(* context.rs                                                              *)
(***************************************************************************)
\* vello_render_context_new: no arguments to check, the body is guarded
vello_render_context_new(panic) == ffi_catch_ptr(panic, RetPtr("new_ctx"))

RenderContextNew(t) ==
    /\ Idle
    /\ HasRoom("context", live)
    /\ \E panic \in Panics :
        LET r == Box_into_raw("context", live, vello_render_context_new(panic))
        IN  /\ Boundary(t, "vello_render_context_new", "ptr", <<>>, r)
            /\ live' = Allocated(live, r)
            /\ UNCHANGED <<engine, session, heap>>

\* VelloRenderSettings values: level is the tag of VelloSimdLevel (Fallback =
\* 0, Sse2 = 1, Sse42 = 2, Avx = 3, Avx2 = 4, Avx512 = 5, Neon = 6),
\* render_mode the tag of VelloRenderMode (OptimizeSpeed = 0, OptimizeQuality
\* = 1)
RenderSettingsInputs ==
    [level : 0..6, num_threads : {0}, render_mode : {0, 1}]

\* Level::try_detect() on the machine the library runs on: no level, or the
\* best level of the processor
Detected == {None, Some("Sse4_2"), Some("Avx2"), Some("Neon")}
Machines ==
    {[usize_bits |-> 64, overflow_checks |-> FALSE, detected |-> d] : d \in Detected}

\* the probes of From<Level> that format!("{:?}", level).to_lowercase()
\* contains
NameContains ==
    [Fallback |-> {}, Sse4_2 |-> {"sse4"}, Avx2 |-> {"avx2", "avx"}, Neon |-> {"neon"}]

\* VelloSimdLevel::from(level), from_vello_level: by the name of the level
from_vello_level(level) ==
    LET has(probe) == probe \in NameContains[level]
    IN  IF has("neon") THEN 6
        ELSE IF has("avx512") THEN 5
        ELSE IF has("avx2") THEN 4
        ELSE IF has("avx") THEN 3
        ELSE IF has("sse4") THEN 2
        ELSE IF has("sse2") THEN 1
        ELSE 0

\* to_vello_level: Level::fallback() for Fallback, and for every other tag
\* Level::try_detect().unwrap_or_else(Level::fallback)
to_vello_level(tag, machine) ==
    IF tag = 0 \/ machine.detected = None THEN "Fallback" ELSE machine.detected[1]

\* From<VelloRenderMode> for RenderMode, From<RenderMode> for VelloRenderMode
RenderMode_from(tag) == IF tag = 0 THEN "OptimizeSpeed" ELSE "OptimizeQuality"
VelloRenderMode_from(mode) == IF mode = "OptimizeSpeed" THEN 0 ELSE 1

\* vello_render_context_new_with
vello_render_context_new_with(a, panic) ==
    IF a.settings = NullPtr
    THEN RejectPtr(<<"Null settings pointer">>)
    ELSE ffi_catch_ptr(panic, RetPtr("new_ctx"))

\* the new context is kept with the RenderSettings it was made with
RenderContextNewWith(t) ==
    /\ Idle
    /\ HasRoom("context", live)
    /\ \E sp \in {NullPtr} \cup PtrTo(RenderSettingsInputs), panic \in Panics :
        LET a == [width |-> 2, height |-> 1, settings |-> sp]
            r == Box_into_raw("context", live, vello_render_context_new_with(a, panic))
        IN  /\ Boundary(t, "vello_render_context_new_with", "ptr", a, r)
            /\ live' = Allocated(live, r)
            /\ ctx' = IF r.done
                      THEN [ctx EXCEPT !.made = @ \cup
                              {[ptr |-> r.ptr,
                                level |-> to_vello_level(sp[1].level, build),
                                num_threads |-> sp[1].num_threads,
                                render_mode |-> RenderMode_from(sp[1].render_mode)]}]
                      ELSE ctx
            /\ out' = IF r.done
                      THEN [out EXCEPT !.given.settings = @ \cup
                              {[ptr |-> r.ptr, settings |-> sp[1]]}]
                      ELSE out
            /\ UNCHANGED <<rec, cbCalls, session, heap>>

\* vello_render_context_get_render_settings
vello_render_context_get_render_settings(a, panic) ==
    IF a.ctx = NULL \/ a.out_settings = NullPtr
    THEN Reject(VELLO_ERROR_NULL_POINTER, <<"Null pointer">>)
    ELSE ffi_catch(panic, Ret(VELLO_OK))

\* called with null or with a context that new_with made
GetRenderSettings(t) ==
    /\ Idle
    /\ \E p \in {NULL} \cup {c.ptr : c \in ctx.made},
          o \in {NullPtr, <<"out_settings">>}, panic \in Panics :
        LET a == [ctx |-> p, out_settings |-> o]
            r == vello_render_context_get_render_settings(a, panic)
        IN  /\ Boundary(t, "vello_render_context_get_render_settings", "status", a, r)
            /\ out' = IF r.done
                      THEN LET c == CHOOSE c \in ctx.made : c.ptr = p
                           IN  [out EXCEPT !.render_settings =
                                   Some([level |-> from_vello_level(c.level),
                                         num_threads |-> c.num_threads,
                                         render_mode |-> VelloRenderMode_from(c.render_mode)])]
                      ELSE out
            /\ UNCHANGED <<ctx, rec, cbCalls, session, live, heap>>

\* vello_render_context_width, vello_render_context_height
vello_render_context_width(c, p) ==
    IF p = NULL THEN RejectSilent(0) ELSE RetValue(c.width)
vello_render_context_height(c, p) ==
    IF p = NULL THEN RejectSilent(0) ELSE RetValue(c.height)

RenderContextWidth(t) ==
    /\ Idle
    /\ \E p \in {NULL, CTX} :
        /\ Boundary(t, "vello_render_context_width", "value", [ctx |-> p],
                    vello_render_context_width(ctx, p))
        /\ UNCHANGED <<engine, session, live, heap>>

RenderContextHeight(t) ==
    /\ Idle
    /\ \E p \in {NULL, CTX} :
        /\ Boundary(t, "vello_render_context_height", "value", [ctx |-> p],
                    vello_render_context_height(ctx, p))
        /\ UNCHANGED <<engine, session, live, heap>>

\* vello_render_context_set_paint_solid
vello_render_context_set_paint_solid(p, panic) ==
    IF p = NULL
    THEN Reject(VELLO_ERROR_NULL_POINTER, <<"Null context pointer">>)
    ELSE ffi_catch(panic, Ret(VELLO_OK))

SetPaintSolid(t) ==
    /\ Idle
    /\ \E p \in {NULL, CTX}, c \in ColorInputs, panic \in Panics :
        LET r == vello_render_context_set_paint_solid(p, panic)
        IN  /\ Boundary(t, "vello_render_context_set_paint_solid", "status",
                        [ctx |-> p, color |-> c], r)
            /\ ctx' = IF r.done
                      THEN [ctx EXCEPT !.paint =
                              [kind |-> "solid", stops |-> 0,
                               color |-> Color_from_rgba8(c.r, c.g, c.b, c.a)]]
                      ELSE ctx
            /\ out' = IF r.done THEN [out EXCEPT !.given.color = Some(c)] ELSE out
            /\ UNCHANGED <<rec, cbCalls, session, live, heap>>

\* The gradient setters take the context, the stops pointer and stop_count.
GradientArgs ==
    [ctx : {NULL, CTX}, stops : {NULL, "stops"}, stop_count : 0..MaxStops]

\* a linear gradient setter that counts the stops after it has set the paint
vello_render_context_set_paint_linear_gradient_late_check(a, panic) ==
    IF a.ctx = NULL \/ (a.stop_count > 0 /\ a.stops = NULL)
    THEN Reject(VELLO_ERROR_NULL_POINTER, <<"Null pointer">>)
    ELSE ffi_catch(panic,
            IF a.stop_count < 2
            THEN [Reject(VELLO_ERROR_INVALID_PARAMETER,
                         <<"Gradient requires at least 2 color stops">>)
                    EXCEPT !.done = TRUE]
            ELSE Ret(VELLO_OK))

\* vello_render_context_set_paint_linear_gradient
vello_render_context_set_paint_linear_gradient(a, panic) ==
    IF a.ctx = NULL \/ (a.stop_count > 0 /\ a.stops = NULL)
    THEN Reject(VELLO_ERROR_NULL_POINTER, <<"Null pointer">>)
    ELSE IF a.stop_count < 2
    THEN Reject(VELLO_ERROR_INVALID_PARAMETER,
                <<"Gradient requires at least 2 color stops">>)
    ELSE ffi_catch(panic, Ret(VELLO_OK))

\* a radial gradient setter that asks for one stop only
vello_render_context_set_paint_radial_gradient_one_stop(a, panic) ==
    IF a.ctx = NULL \/ (a.stop_count > 0 /\ a.stops = NULL)
    THEN Reject(VELLO_ERROR_NULL_POINTER, <<"Null pointer">>)
    ELSE IF a.stop_count < 1
    THEN Reject(VELLO_ERROR_INVALID_PARAMETER,
                <<"Gradient requires at least 2 color stops">>)
    ELSE ffi_catch(panic, Ret(VELLO_OK))

\* vello_render_context_set_paint_radial_gradient
vello_render_context_set_paint_radial_gradient(a, panic) ==
    IF a.ctx = NULL \/ (a.stop_count > 0 /\ a.stops = NULL)
    THEN Reject(VELLO_ERROR_NULL_POINTER, <<"Null pointer">>)
    ELSE IF a.stop_count < 2
    THEN Reject(VELLO_ERROR_INVALID_PARAMETER,
                <<"Gradient requires at least 2 color stops">>)
    ELSE ffi_catch(panic, Ret(VELLO_OK))

\* vello_render_context_set_paint_sweep_gradient
vello_render_context_set_paint_sweep_gradient(a, panic) ==
    IF a.ctx = NULL \/ (a.stop_count > 0 /\ a.stops = NULL)
    THEN Reject(VELLO_ERROR_NULL_POINTER, <<"Null pointer">>)
    ELSE IF a.stop_count < 2
    THEN Reject(VELLO_ERROR_INVALID_PARAMETER,
                <<"Gradient requires at least 2 color stops">>)
    ELSE ffi_catch(panic, Ret(VELLO_OK))

\* ctx.set_paint(gradient) at the end of a gradient setter's body
SetGradient(t, op, kind, a, r) ==
    /\ Boundary(t, op, "status", a, r)
    /\ ctx' = IF r.done
              THEN [ctx EXCEPT !.paint = [kind |-> kind, stops |-> a.stop_count]]
              ELSE ctx
    /\ UNCHANGED <<rec, out, cbCalls, session, live, heap>>

SetPaintLinearGradient(t) ==
    /\ Idle
    /\ \E a \in GradientArgs, panic \in Panics :
        SetGradient(t, "vello_render_context_set_paint_linear_gradient", "linear", a,
                    vello_render_context_set_paint_linear_gradient(a, panic))

SetPaintRadialGradient(t) ==
    /\ Idle
    /\ \E a \in GradientArgs, panic \in Panics :
        SetGradient(t, "vello_render_context_set_paint_radial_gradient", "radial", a,
                    vello_render_context_set_paint_radial_gradient(a, panic))

SetPaintSweepGradient(t) ==
    /\ Idle
    /\ \E a \in GradientArgs, panic \in Panics :
        SetGradient(t, "vello_render_context_set_paint_sweep_gradient", "sweep", a,
                    vello_render_context_set_paint_sweep_gradient(a, panic))

\* Affine::new([t.m11, t.m12, t.m21, t.m22, t.m13, t.m23]) of a VelloAffine
Affine_from(t) == Affine_new(<<t.m11, t.m12, t.m21, t.m22, t.m13, t.m23>>)

\* set_transform with its null check moved into the guarded body
vello_render_context_set_transform_check_in_guard(a, panic) ==
    ffi_catch(panic,
        IF a.ctx = NULL \/ a.transform = NullPtr
        THEN Reject(VELLO_ERROR_NULL_POINTER, <<"Null pointer">>)
        ELSE Ret(VELLO_OK))

\* vello_render_context_set_transform
vello_render_context_set_transform(a, panic) ==
    IF a.ctx = NULL \/ a.transform = NullPtr
    THEN Reject(VELLO_ERROR_NULL_POINTER, <<"Null pointer">>)
    ELSE ffi_catch(panic, Ret(VELLO_OK))

SetTransform(t) ==
    /\ Idle
    /\ \E p \in {NULL, CTX}, tp \in {NullPtr} \cup PtrTo(AffineInputs), panic \in Panics :
        LET a == [ctx |-> p, transform |-> tp]
            r == vello_render_context_set_transform(a, panic)
        IN  /\ Boundary(t, "vello_render_context_set_transform", "status", a, r)
            /\ ctx' = IF r.done
                      THEN [ctx EXCEPT !.transform = Affine_from(tp[1])]
                      ELSE ctx
            /\ out' = IF r.done
                      THEN [out EXCEPT !.given.transform = Some(tp[1])]
                      ELSE out
            /\ UNCHANGED <<rec, cbCalls, session, live, heap>>

\* the six coefficients written to the fields in the order of the fields
VelloAffine_in_field_order(coeffs) ==
    [m11 |-> coeffs[1], m12 |-> coeffs[2], m13 |-> coeffs[3],
     m21 |-> coeffs[4], m22 |-> coeffs[5], m23 |-> coeffs[6]]

\* the VelloAffine the getters write from transform.as_coeffs(): out.m11 =
\* coeffs[0], m12 = coeffs[1], m21 = coeffs[2], m22 = coeffs[3], m13 =
\* coeffs[4], m23 = coeffs[5]
VelloAffine_from(coeffs) ==
    [m11 |-> coeffs[1], m12 |-> coeffs[2], m21 |-> coeffs[3],
     m22 |-> coeffs[4], m13 |-> coeffs[5], m23 |-> coeffs[6]]

\* vello_render_context_get_transform and vello_render_context_get_paint_transform
vello_render_context_get_transform(a, panic) ==
    IF a.ctx = NULL \/ a.out_transform = NullPtr
    THEN Reject(VELLO_ERROR_NULL_POINTER, <<"Null pointer">>)
    ELSE ffi_catch(panic, Ret(VELLO_OK))

\* the two getters: field is the transform they read
GetAffine(t, op, field) ==
    /\ Idle
    /\ \E p \in {NULL, CTX}, o \in {NullPtr, <<"out_transform">>}, panic \in Panics :
        LET a == [ctx |-> p, out_transform |-> o]
            r == vello_render_context_get_transform(a, panic)
        IN  /\ Boundary(t, op, "status", a, r)
            /\ out' = IF r.done
                      THEN [out EXCEPT !.transform = Some(VelloAffine_from(ctx[field]))]
                      ELSE out
            /\ UNCHANGED <<ctx, rec, cbCalls, session, live, heap>>

GetTransform(t) == GetAffine(t, "vello_render_context_get_transform", "transform")

GetPaintTransform(t) ==
    GetAffine(t, "vello_render_context_get_paint_transform", "paint_transform")

\* vello_render_context_set_paint_transform
SetPaintTransform(t) ==
    /\ Idle
    /\ \E p \in {NULL, CTX}, tp \in {NullPtr} \cup PtrTo(AffineInputs), panic \in Panics :
        LET a == [ctx |-> p, transform |-> tp]
            r == vello_render_context_set_transform(a, panic)
        IN  /\ Boundary(t, "vello_render_context_set_paint_transform", "status", a, r)
            /\ ctx' = IF r.done
                      THEN [ctx EXCEPT !.paint_transform = Affine_from(tp[1])]
                      ELSE ctx
            /\ out' = IF r.done
                      THEN [out EXCEPT !.given.paint_transform = Some(tp[1])]
                      ELSE out
            /\ UNCHANGED <<rec, cbCalls, session, live, heap>>

\* vello_render_context_set_stroke
vello_render_context_set_stroke(a, panic) ==
    IF a.ctx = NULL \/ a.stroke = NullPtr
    THEN Reject(VELLO_ERROR_NULL_POINTER, <<"Null pointer">>)
    ELSE ffi_catch(panic, Ret(VELLO_OK))

SetStroke(t) ==
    /\ Idle
    /\ \E p \in {NULL, CTX}, sp \in {NullPtr} \cup PtrTo(StrokeInputs), panic \in Panics :
        LET a == [ctx |-> p, stroke |-> sp]
            r == vello_render_context_set_stroke(a, panic)
        IN  /\ Boundary(t, "vello_render_context_set_stroke", "status", a, r)
            /\ ctx' = IF r.done THEN [ctx EXCEPT !.stroke = Stroke_from(sp[1])] ELSE ctx
            /\ out' = IF r.done THEN [out EXCEPT !.given.stroke = sp] ELSE out
            /\ UNCHANGED <<rec, cbCalls, session, live, heap>>

\* vello_render_context_get_stroke
vello_render_context_get_stroke(a, panic) ==
    IF a.ctx = NULL \/ a.out_stroke = NullPtr
    THEN Reject(VELLO_ERROR_NULL_POINTER, <<"Null pointer">>)
    ELSE ffi_catch(panic, Ret(VELLO_OK))

GetStroke(t) ==
    /\ Idle
    /\ \E p \in {NULL, CTX}, o \in {NullPtr, <<"out_stroke">>}, panic \in Panics :
        LET a == [ctx |-> p, out_stroke |-> o]
            r == vello_render_context_get_stroke(a, panic)
        IN  /\ Boundary(t, "vello_render_context_get_stroke", "status", a, r)
            /\ out' = IF r.done
                      THEN [out EXCEPT !.stroke = Some(VelloStroke_from(ctx.stroke))]
                      ELSE out
            /\ UNCHANGED <<ctx, rec, cbCalls, session, live, heap>>

\* the i16 values set_aliasing_threshold is called with
ThresholdInputs == {-32768, -1, 0, 1, 255, 256, 32767}

\* a threshold_opt whose `as u8` is made without the clamp
threshold_opt_unclamped(threshold) ==
    IF threshold < 0 THEN None ELSE Some(threshold % 256)

\* threshold_opt: None if threshold < 0, Some(threshold.clamp(0, 255) as u8)
\* otherwise
threshold_opt(threshold) ==
    IF threshold < 0
    THEN None
    ELSE Some((IF threshold > 255 THEN 255 ELSE threshold) % 256)

\* vello_render_context_set_aliasing_threshold
vello_render_context_set_aliasing_threshold(a, panic) ==
    IF a.ctx = NULL
    THEN Reject(VELLO_ERROR_NULL_POINTER, <<"Null context pointer">>)
    ELSE ffi_catch(panic, Ret(VELLO_OK))

SetAliasingThreshold(t) ==
    /\ Idle
    /\ \E p \in {NULL, CTX}, th \in ThresholdInputs, panic \in Panics :
        LET a == [ctx |-> p, threshold |-> th]
            r == vello_render_context_set_aliasing_threshold(a, panic)
        IN  /\ Boundary(t, "vello_render_context_set_aliasing_threshold", "status", a, r)
            /\ ctx' = IF r.done
                      THEN [ctx EXCEPT !.aliasing_threshold = threshold_opt(th)]
                      ELSE ctx
            /\ UNCHANGED <<rec, out, cbCalls, session, live, heap>>

\* the match of set_fill_rule: peniko's Fill of a VelloFillRule
Fill_from(f) == IF f = "NonZero" THEN "NonZero" ELSE "EvenOdd"

\* vello_render_context_set_fill_rule
vello_render_context_set_fill_rule(a, panic) ==
    IF a.ctx = NULL
    THEN Reject(VELLO_ERROR_NULL_POINTER, <<"Null context pointer">>)
    ELSE ffi_catch(panic, Ret(VELLO_OK))

SetFillRule(t) ==
    /\ Idle
    /\ \E p \in {NULL, CTX}, f \in FillRules, panic \in Panics :
        LET a == [ctx |-> p, fill_rule |-> f]
            r == vello_render_context_set_fill_rule(a, panic)
        IN  /\ Boundary(t, "vello_render_context_set_fill_rule", "status", a, r)
            /\ ctx' = IF r.done THEN [ctx EXCEPT !.fill_rule = Fill_from(f)] ELSE ctx
            /\ out' = IF r.done THEN [out EXCEPT !.given.fill_rule = Some(f)] ELSE out
            /\ UNCHANGED <<rec, cbCalls, session, live, heap>>

\* vello_render_context_fill_rect and vello_render_context_stroke_rect, and
\* what each draws
RectFunctions ==
    [vello_render_context_fill_rect |-> "FillRect",
     vello_render_context_stroke_rect |-> "StrokeRect"]

vello_render_context_rect(a, panic) ==
    IF a.ctx = NULL \/ a.rect = NullPtr
    THEN Reject(VELLO_ERROR_NULL_POINTER, <<"Null pointer">>)
    ELSE ffi_catch(panic, Ret(VELLO_OK))

\* the context keeps the last rectangle it filled and the last it stroked
DrawRect(t) ==
    /\ Idle
    /\ \E op \in DOMAIN RectFunctions, p \in {NULL, CTX},
          rp \in {NullPtr} \cup PtrTo(RectInputs), panic \in Panics :
        LET a == [ctx |-> p, rect |-> rp]
            r == vello_render_context_rect(a, panic)
            v == rp[1]
        IN  /\ Boundary(t, op, "status", a, r)
            /\ ctx' = IF r.done
                      THEN [ctx EXCEPT !.drawn[RectFunctions[op]] =
                               Some(Rect_new(v.x0, v.y0, v.x1, v.y1))]
                      ELSE ctx
            /\ out' = IF r.done
                      THEN [out EXCEPT !.given[RectFunctions[op]] = rp]
                      ELSE out
            /\ UNCHANGED <<rec, cbCalls, session, live, heap>>

\* a fill-rule getter whose answer for a null context is EvenOdd
vello_render_context_get_fill_rule_even_odd(c, p) ==
    IF p = NULL
    THEN [RetValue(FillRuleTag("EvenOdd")) EXCEPT !.done = FALSE]
    ELSE RetValue(FillRuleTag(c.fill_rule))

\* vello_render_context_get_fill_rule: no guard, no message; NonZero for null
vello_render_context_get_fill_rule(c, p) ==
    IF p = NULL
    THEN [RetValue(FillRuleTag("NonZero")) EXCEPT !.done = FALSE]
    ELSE RetValue(FillRuleTag(c.fill_rule))

GetFillRule(t) ==
    /\ Idle
    /\ \E p \in {NULL, CTX} :
        /\ Boundary(t, "vello_render_context_get_fill_rule", "value", [ctx |-> p],
                    vello_render_context_get_fill_rule(ctx, p))
        /\ UNCHANGED <<engine, session, live, heap>>

\* The buffer lengths and sizes render_to_buffer is called with.
BufferLens == {0, 4, 7, 8}
BufferWidths == {1, 2, 32768}
BufferHeights == {1, 32768}

\* (width as usize) * (height as usize): below 2^32, it fits every usize
Pixels(a) == a.width * a.height

\* the multiplication by 4 leaves the range of usize: 4 * x >= 2^32
mul4_overflows(a, b) == b.usize_bits = 32 /\ Pixels(a) >= 2^30

\* required_len / 4, where required_len is (width as usize) * (height as
\* usize) * 4 in usize arithmetic: (4 * x) mod 2^32 = 4 * (x mod 2^30) on a
\* 32-bit target, 4 * x on a 64-bit target
required_len_div_4(a, b) ==
    IF b.usize_bits = 32 THEN Pixels(a) % (2^30) ELSE Pixels(a)

\* buffer_len < required_len, both multiples being compared in units of 4
buffer_too_small(a, b) == (a.buffer_len \div 4) < required_len_div_4(a, b)

\* the panic of a multiplication that overflows in a build with
\* overflow checks
OverflowPanic == [kind |-> "str", text |-> <<"attempt to multiply with overflow">>]

\* vello_render_context_render_to_buffer: the length check is made inside the
\* guarded body, and the body returns from it before the engine is called,
\* so only the multiplication and the engine can panic
vello_render_context_render_to_buffer(a, panic, b) ==
    IF a.ctx = NULL \/ a.buffer = NULL
    THEN Reject(VELLO_ERROR_NULL_POINTER, <<"Null pointer">>)
    ELSE IF mul4_overflows(a, b) /\ b.overflow_checks
    THEN ffi_catch(OverflowPanic, Ret(VELLO_OK))
    ELSE IF buffer_too_small(a, b)
    THEN ffi_catch(NoPanic,
                   Reject(VELLO_ERROR_INVALID_PARAMETER, <<"Buffer too small">>))
    ELSE ffi_catch(panic, Ret(VELLO_OK))

\* the bytes the engine has written into the slice of required_len bytes
\* when it returns, or when it panics part of the way: whole pixels from
\* index 0, none past the slice
BytesWritten(a, r, b) ==
    IF r.done THEN {4 * required_len_div_4(a, b)}
    ELSE IF r.panic \in Payloads
    THEN {4 * i : i \in 0..required_len_div_4(a, b)}
    ELSE {0}

RenderToBuffer(t) ==
    /\ Idle
    /\ \E p \in {NULL, CTX}, b \in {NULL, "buffer"}, n \in BufferLens,
       w \in BufferWidths, h \in BufferHeights, panic \in Panics :
        LET a == [ctx |-> p, buffer |-> b, buffer_len |-> n, width |-> w, height |-> h]
            r == vello_render_context_render_to_buffer(a, panic, build)
        IN  /\ Boundary(t, "vello_render_context_render_to_buffer", "status", a, r)
            /\ \E written \in BytesWritten(a, r, build) :
                  out' = IF written > 0 THEN [out EXCEPT !.buffer = Some(written)]
                         ELSE out
            /\ UNCHANGED <<ctx, rec, cbCalls, session, live, heap>>

(***************************************************************************)
(* pixmap.rs                                                               *)
(***************************************************************************)
\* the sizes vello_pixmap_resize is called with
ResizeSizes == {<<1, 1>>, <<3, 2>>}

\* vello_pixmap_resize
vello_pixmap_resize(a, panic) ==
    IF a.pixmap = NULL
    THEN Reject(VELLO_ERROR_NULL_POINTER, <<"Null pixmap pointer">>)
    ELSE ffi_catch(panic, Ret(VELLO_OK))

PixmapResize(t) ==
    /\ Idle
    /\ \E p \in {NULL} \cup (Pixmaps \cap live), size \in ResizeSizes, panic \in Panics :
        LET a == [pixmap |-> p, width |-> size[1], height |-> size[2]]
            r == vello_pixmap_resize(a, panic)
        IN  /\ Boundary(t, "vello_pixmap_resize", "status", a, r)
            /\ heap' = IF r.done THEN [heap EXCEPT ![p] = Own(size)] ELSE heap
            /\ UNCHANGED <<engine, session, live>>

\* vello_pixmap_sample: the coordinate check is made inside the guarded body
vello_pixmap_sample(a, panic) ==
    IF a.pixmap = NULL \/ a.out_pixel = NULL
    THEN Reject(VELLO_ERROR_NULL_POINTER, <<"Null pointer">>)
    ELSE ffi_catch(panic,
            IF a.x >= PixmapWidth \/ a.y >= PixmapHeight
            THEN Reject(VELLO_ERROR_INVALID_PARAMETER, <<"Coordinates out of bounds">>)
            ELSE Ret(VELLO_OK))

PixmapSample(t) ==
    /\ Idle
    /\ \E p \in {NULL, PIXMAP}, o \in {NULL, "out_pixel"},
       x \in 0..PixmapWidth, y \in 0..PixmapHeight, panic \in Panics :
        LET a == [pixmap |-> p, out_pixel |-> o, x |-> x, y |-> y]
            r == vello_pixmap_sample(a, panic)
        IN  /\ Boundary(t, "vello_pixmap_sample", "status", a, r)
            /\ out' = IF r.done THEN [out EXCEPT !.pixel = Some(Pixmap_sample(x, y))] ELSE out
            /\ UNCHANGED <<ctx, rec, cbCalls, session, live, heap>>

(***************************************************************************)
(* image.rs                                                                *)
(***************************************************************************)
\* vello_render_context_set_paint_image: the opacity check is made inside the
\* guarded body, before the one call that can panic (ctx.set_paint)
vello_render_context_set_paint_image(a, panic) ==
    IF a.ctx = NULL \/ a.image = NULL
    THEN Reject(VELLO_ERROR_NULL_POINTER, <<"Null pointer">>)
    ELSE IF opacity_unsupported(a.image)
         THEN ffi_catch(NoPanic, Reject(VELLO_ERROR_INVALID_PARAMETER,
                                        <<"Image opacity is not supported yet">>))
         ELSE ffi_catch(panic, Ret(VELLO_OK))

SetPaintImage(t) ==
    /\ Idle
    /\ \E p \in {NULL, CTX}, i \in {NULL} \cup ((Images \cup Addresses("image")) \cap live),
          panic \in Panics :
        LET a == [ctx |-> p, image |-> i]
            r == vello_render_context_set_paint_image(a, panic)
        IN  /\ Boundary(t, "vello_render_context_set_paint_image", "status", a, r)
            /\ ctx' = IF r.done
                      THEN [ctx EXCEPT !.paint = [kind |-> i, stops |-> 0,
                                                  pixels |-> Holder_clone(heap, i)]]
                      ELSE ctx
            /\ UNCHANGED <<rec, out, cbCalls, session, live, heap>>

(***************************************************************************)
(* mask.rs                                                                 *)
(***************************************************************************)
\* vello_render_context_push_mask_layer needs its mask;
\* vello_render_context_push_layer (context.rs) takes null for no mask
LayerFunctions ==
    [vello_render_context_push_mask_layer |->
        [mask_required |-> TRUE, msg |-> "Null pointer"],
     vello_render_context_push_layer |->
        [mask_required |-> FALSE, msg |-> "Null context pointer"]]

vello_render_context_push(f, a, panic) ==
    IF a.ctx = NULL \/ (f.mask_required /\ a.mask = NULL)
    THEN Reject(VELLO_ERROR_NULL_POINTER, <<f.msg>>)
    ELSE ffi_catch(panic, Ret(VELLO_OK))

\* the layer is pushed with mask.clone(), or with no mask
PushLayer(t) ==
    /\ Idle
    /\ \E op \in DOMAIN LayerFunctions, p \in {NULL, CTX},
          m \in {NULL} \cup (({MASK} \cup Addresses("mask")) \cap live), panic \in Panics :
        LET f == LayerFunctions[op]
            a == [ctx |-> p, mask |-> m]
            r == vello_render_context_push(f, a, panic)
        IN  /\ Boundary(t, op, "status", a, r)
            /\ ctx' = IF r.done
                      THEN [ctx EXCEPT !.layers = Append(@,
                               IF m = NULL THEN None ELSE Some(Holder_clone(heap, m)))]
                      ELSE ctx
            /\ UNCHANGED <<rec, out, cbCalls, session, live, heap>>

\* vello_mask_new_alpha
vello_mask_new_alpha(p, panic) ==
    IF p = NULL
    THEN RejectPtr(<<"Null pixmap pointer">>)
    ELSE ffi_catch_ptr(panic, RetPtr("new_mask"))

MaskNewAlpha(t) ==
    /\ Idle
    /\ HasRoom("mask", live)
    /\ \E p \in {NULL} \cup (Pixmaps \cap live), panic \in Panics :
        LET r == Box_into_raw("mask", live, vello_mask_new_alpha(p, panic))
        IN  /\ Boundary(t, "vello_mask_new_alpha", "ptr", [pixmap |-> p], r)
            /\ live' = Allocated(live, r)
            /\ heap' = Boxed(heap, r, Pixmap_clone(heap, p))
            /\ UNCHANGED <<engine, session>>

\* vello_mask_get_width, vello_mask_get_height: no guard, no message
vello_mask_get_width(p) ==
    IF p = NULL THEN RejectSilent(0) ELSE RetValue(Mask_width)
vello_mask_get_height(p) ==
    IF p = NULL THEN RejectSilent(0) ELSE RetValue(Mask_height)

MaskGetWidth(t) ==
    /\ Idle
    /\ \E p \in {NULL, MASK} :
        /\ Boundary(t, "vello_mask_get_width", "value", [mask |-> p],
                    vello_mask_get_width(p))
        /\ UNCHANGED <<engine, session, live, heap>>

MaskGetHeight(t) ==
    /\ Idle
    /\ \E p \in {NULL, MASK} :
        /\ Boundary(t, "vello_mask_get_height", "value", [mask |-> p],
                    vello_mask_get_height(p))
        /\ UNCHANGED <<engine, session, live, heap>>

(***************************************************************************)
(* marshaling_tests.rs                                                     *)
(***************************************************************************)
\* vello_test_echo_render_settings: no guard, no message
vello_test_echo_render_settings(a) ==
    IF a.input = NULL \/ a.output = NULL
    THEN RejectSilent(VELLO_ERROR_NULL_POINTER)
    ELSE Ret(VELLO_OK)

TestEchoRenderSettings(t) ==
    /\ Idle
    /\ \E i \in {NULL, "settings"}, o \in {NULL, "out_settings"} :
        LET a == [input |-> i, output |-> o]
            r == vello_test_echo_render_settings(a)
        IN  /\ Boundary(t, "vello_test_echo_render_settings", "status", a, r)
            /\ out' = IF r.done THEN [out EXCEPT !.settings = Some(i)] ELSE out
            /\ UNCHANGED <<ctx, rec, cbCalls, session, live, heap>>

(***************************************************************************)
(* recording.rs                                                            *)
(***************************************************************************)
\* the commands that rasterize geometry
GeometryCommands == {"FillRect", "StrokeRect", "FillPath", "StrokePath"}

\* Recording::command_count, has_cached_strips, strip_count, alpha_count
Recording_command_count(r) == Len(r.commands)
Recording_has_cached_strips(r) == r.strips > 0 \/ r.alphas > 0
Recording_strip_count(r) == r.strips
Recording_alpha_count(r) == r.alphas

\* Recording::clear: the log and the cache are dropped
Recording_clear(r) == Recording_new

\* prepare_recording: every geometry command of the log is rasterized into
\* strips and alpha bytes, which the recording keeps
prepare_recording(r) ==
    LET n == Cardinality({i \in 1..Len(r.commands) : r.commands[i] \in GeometryCommands})
    IN  [r EXCEPT !.strips = n, !.alphas = n]

\* vello_recording_clear with the null check inverted
vello_recording_clear_inverted(p) ==
    IF p # NULL
    THEN Reject(-1, <<"Null recording pointer">>)
    ELSE Ret(0)

\* vello_recording_clear
vello_recording_clear(p) ==
    IF p = NULL
    THEN Reject(-1, <<"Null recording pointer">>)
    ELSE Ret(0)

RecordingClear(t) ==
    /\ Idle
    /\ \E p \in {NULL, REC} :
        LET r == vello_recording_clear(p)
        IN  /\ Boundary(t, "vello_recording_clear", "status", [recording |-> p], r)
            /\ rec' = IF r.done THEN Recording_clear(rec) ELSE rec
            /\ UNCHANGED <<ctx, out, cbCalls, session, live, heap>>

\* vello_recording_len
vello_recording_len(r, p) ==
    IF p = NULL
    THEN RejectValue(<<"Null recording pointer">>)
    ELSE RetValue(Recording_command_count(r))

\* vello_recording_has_cached_strips
vello_recording_has_cached_strips(r, p) ==
    IF p = NULL
    THEN RejectValue(<<"Null recording pointer">>)
    ELSE RetValue(IF Recording_has_cached_strips(r) THEN 1 ELSE 0)

\* vello_recording_strip_count reading the command count
vello_recording_strip_count_of_commands(r, p) ==
    IF p = NULL
    THEN RejectValue(<<"Null recording pointer">>)
    ELSE RetValue(Recording_command_count(r))

\* vello_recording_strip_count
vello_recording_strip_count(r, p) ==
    IF p = NULL
    THEN RejectValue(<<"Null recording pointer">>)
    ELSE RetValue(Recording_strip_count(r))

\* vello_recording_alpha_count
vello_recording_alpha_count(r, p) ==
    IF p = NULL
    THEN RejectValue(<<"Null recording pointer">>)
    ELSE RetValue(Recording_alpha_count(r))

RecordingLen(t) ==
    /\ Idle
    /\ \E p \in {NULL, REC} :
        /\ Boundary(t, "vello_recording_len", "value", [recording |-> p],
                    vello_recording_len(rec, p))
        /\ UNCHANGED <<engine, session, live, heap>>

RecordingHasCachedStrips(t) ==
    /\ Idle
    /\ \E p \in {NULL, REC} :
        /\ Boundary(t, "vello_recording_has_cached_strips", "value", [recording |-> p],
                    vello_recording_has_cached_strips(rec, p))
        /\ UNCHANGED <<engine, session, live, heap>>

RecordingStripCount(t) ==
    /\ Idle
    /\ \E p \in {NULL, REC} :
        /\ Boundary(t, "vello_recording_strip_count", "value", [recording |-> p],
                    vello_recording_strip_count(rec, p))
        /\ UNCHANGED <<engine, session, live, heap>>

RecordingAlphaCount(t) ==
    /\ Idle
    /\ \E p \in {NULL, REC} :
        /\ Boundary(t, "vello_recording_alpha_count", "value", [recording |-> p],
                    vello_recording_alpha_count(rec, p))
        /\ UNCHANGED <<engine, session, live, heap>>

\* vello_render_context_record, up to the callback: the null checks, then
\* ctx.record(..) hands the recorder to the caller's callback
vello_render_context_record(a) ==
    IF a.ctx = NULL
    THEN Reject(-1, <<"Null context pointer">>)
    ELSE IF a.recording = NULL
    THEN Reject(-1, <<"Null recording pointer">>)
    ELSE Ret(0)

\* the callback the caller passes, and its user_data
Callbacks == {"callback"}
UserData == {"user_data"}

\* callback(user_data, recorder as *mut _ as *mut c_void), in the closure
\* ctx.record calls
Invocation(a) ==
    [callback |-> a.callback, user_data |-> a.user_data, recorder |-> RECORDER]

Record(t) ==
    /\ Idle
    /\ \E p \in {NULL, CTX}, q \in {NULL, REC}, f \in Callbacks, u \in UserData :
        LET a == [ctx |-> p, recording |-> q, callback |-> f, user_data |-> u]
            r == vello_render_context_record(a)
        IN  IF r.done
            THEN /\ ncalls' = ncalls + 1
                 /\ session' = Some(t)
                 /\ cbCalls' = Append(cbCalls, Invocation(a))
                 /\ UNCHANGED <<lastError, boundary, ctx, rec, out, call, fixed, live, heap>>
            ELSE /\ Boundary(t, "vello_render_context_record", "status", a, r)
                 /\ UNCHANGED <<engine, session, live, heap>>

\* the callback returns, ctx.record returns, and record returns 0
CallbackReturn(t) ==
    /\ boundary = "intact"
    /\ call = NoCall
    /\ session = Some(t)
    /\ session' = None
    /\ call' = [NoCall EXCEPT !.op = "vello_render_context_record", !.thread = t,
                              !.kind = "status", !.status = 0,
                              !.args = [ctx |-> CTX, recording |-> REC,
                                        callback |-> cbCalls[Len(cbCalls)].callback,
                                        user_data |-> cbCalls[Len(cbCalls)].user_data]]
    /\ UNCHANGED <<lastError, boundary, engine, ncalls, fixed, live, heap>>

\* a push that keeps the cache of the log it extends
Recorder_push_keeping_cache(r, command) ==
    [r EXCEPT !.commands = Append(@, command)]

\* Recorder::fill_rect and the other methods of the recorder: one command
\* is pushed at the end of the log of the recording of the session, and
\* the cache of a log that has changed is dropped
Recorder_push(r, command) ==
    [r EXCEPT !.commands = Append(@, command), !.strips = 0, !.alphas = 0]

\* The recorder functions, vello_recorder_fill_rect to vello_recorder_pop_layer:
\* the parameter each takes after the recorder (arg: None when it takes none,
\* values: what the callback passes, checked: whether it is a pointer the
\* function compares with null, and the message it then records), and the
\* command its Recorder method pushes
RecorderFunctions ==
    [
     vello_recorder_fill_rect |->
        [arg |-> Some("rect"), values |-> {NullPtr} \cup PtrTo(RectInputs),
         checked |-> TRUE, null |-> NullPtr, msg |-> "Null rect pointer", command |-> "FillRect"],
     vello_recorder_stroke_rect |->
        [arg |-> Some("rect"), values |-> {NullPtr} \cup PtrTo(RectInputs),
         checked |-> TRUE, null |-> NullPtr, msg |-> "Null rect pointer", command |-> "StrokeRect"],
     vello_recorder_fill_path |->
        [arg |-> Some("path"), values |-> {NULL, PATH},
         checked |-> TRUE, null |-> NULL, msg |-> "Null path pointer", command |-> "FillPath"],
     vello_recorder_stroke_path |->
        [arg |-> Some("path"), values |-> {NULL, PATH},
         checked |-> TRUE, null |-> NULL, msg |-> "Null path pointer", command |-> "StrokePath"],
     vello_recorder_set_paint_solid |->
        [arg |-> Some("color"), values |-> ColorInputs,
         checked |-> FALSE, null |-> NULL, msg |-> "", command |-> "SetPaint"],
     vello_recorder_set_transform |->
        [arg |-> Some("affine"), values |-> {NullPtr} \cup PtrTo(AffineInputs),
         checked |-> TRUE, null |-> NullPtr, msg |-> "Null affine pointer", command |-> "SetTransform"],
     vello_recorder_set_fill_rule |->
        [arg |-> Some("fill_rule"), values |-> FillRules,
         checked |-> FALSE, null |-> NULL, msg |-> "", command |-> "SetFillRule"],
     vello_recorder_set_stroke |->
        [arg |-> Some("stroke"), values |-> {NullPtr} \cup PtrTo(StrokeInputs),
         checked |-> TRUE, null |-> NullPtr, msg |-> "Null stroke pointer", command |-> "SetStroke"],
     vello_recorder_set_paint_transform |->
        [arg |-> Some("affine"), values |-> {NullPtr} \cup PtrTo(AffineInputs),
         checked |-> TRUE, null |-> NullPtr, msg |-> "Null affine pointer", command |-> "SetPaintTransform"],
     vello_recorder_reset_paint_transform |->
        [arg |-> None, values |-> {NULL},
         checked |-> FALSE, null |-> NULL, msg |-> "", command |-> "ResetPaintTransform"],
     vello_recorder_push_clip_layer |->
        [arg |-> Some("clip_path"), values |-> {NULL, PATH},
         checked |-> TRUE, null |-> NULL, msg |-> "Null clip path pointer", command |-> "PushClipLayer"],
     vello_recorder_pop_layer |->
        [arg |-> None, values |-> {NULL},
         checked |-> FALSE, null |-> NULL, msg |-> "", command |-> "PopLayer"]
    ]

\* a recorder that passes the coefficients of a VelloAffine in field order
Recorder_value_field_order(f, q) ==
    IF f.arg = Some("affine")
    THEN [affine |-> Affine_new(<<q[1].m11, q[1].m12, q[1].m13,
                                  q[1].m21, q[1].m22, q[1].m23>>)]
    ELSE [none |-> TRUE]

\* what each recorder function builds from its parameter and passes to the
\* method of the Recorder
Recorder_value(f, q) ==
    IF f.arg = Some("affine")
    THEN [affine |-> Affine_new(<<q[1].m11, q[1].m12, q[1].m21,
                                  q[1].m22, q[1].m13, q[1].m23>>)]
    ELSE IF f.arg = Some("stroke")
    THEN [stroke |->
            [ [width |-> f32_as_f64(q[1].width), join |-> "Round",
               start_cap |-> "Round", end_cap |-> "Round",
               miter_limit |-> f32_as_f64(4)]
              EXCEPT !.start_cap = KurboOf.cap[q[1].start_cap],
                     !.end_cap = KurboOf.cap[q[1].end_cap],
                     !.join = KurboOf.join[q[1].join],
                     !.miter_limit = f32_as_f64(q[1].miter_limit) ]]
    ELSE IF f.arg = Some("fill_rule")
    THEN [fill |-> IF q = "NonZero" THEN "NonZero" ELSE "EvenOdd"]
    ELSE IF f.arg = Some("color")
    THEN [color |-> Color_from_rgba8(q.r, q.g, q.b, q.a)]
    ELSE IF f.arg = Some("rect")
    THEN [rect |-> Rect_new(q[1].x0, q[1].y0, q[1].x1, q[1].y1)]
    ELSE [none |-> TRUE]

\* a call that reaches the method of the Recorder passes it the value
Passing(r, f, q) ==
    IF r.done THEN [r EXCEPT !.passed = Some(Recorder_value(f, q))] ELSE r

\* the arguments of a call of f
RecorderArgs(f, p, q) ==
    IF f.arg = None
    THEN [recorder |-> p]
    ELSE [k \in {"recorder", f.arg[1]} |-> IF k = "recorder" THEN p ELSE q]

\* vello_recorder_* with the range check of the context's set_transform
vello_recorder_range_checked(f, a) ==
    IF a.recorder = NULL
    THEN Reject(-1, <<"Null recorder pointer">>)
    ELSE IF f.checked /\ a[f.arg[1]] = f.null
    THEN Reject(-1, <<f.msg>>)
    ELSE IF f.arg = Some("affine") /\ a.affine[1].m11 # 1
    THEN Reject(VELLO_ERROR_INVALID_PARAMETER, <<"Invalid transform">>)
    ELSE Ret(0)

\* vello_recorder_* returning before the Recorder method is called
vello_recorder_early_return(f, a) ==
    IF a.recorder = NULL
    THEN Reject(-1, <<"Null recorder pointer">>)
    ELSE IF f.checked /\ a[f.arg[1]] = f.null
    THEN Reject(-1, <<f.msg>>)
    ELSE [Ret(0) EXCEPT !.done = FALSE]

\* vello_recorder_*: the recorder is compared with null, then the pointer
\* the function takes, then the Recorder method is called; there is no
\* catch_unwind and no other check
vello_recorder(f, a) ==
    IF a.recorder = NULL
    THEN Reject(-1, <<"Null recorder pointer">>)
    ELSE IF f.checked /\ a[f.arg[1]] = f.null
    THEN Reject(-1, <<f.msg>>)
    ELSE Ret(0)

\* a recorder function, called by the callback with the recorder of the
\* session
RecorderCall(t) ==
    /\ Running
    /\ session = Some(t)
    /\ \E op \in DOMAIN RecorderFunctions, p \in {NULL, RECORDER} :
        LET f == RecorderFunctions[op]
        IN  \E q \in f.values :
                LET a == RecorderArgs(f, p, q)
                    r == Passing(vello_recorder(f, a), f, q)
                IN  /\ Boundary(t, op, "status", a, r)
                    /\ rec' = IF r.done THEN Recorder_push(rec, f.command) ELSE rec
                    /\ UNCHANGED <<ctx, out, cbCalls, session, live, heap>>

\* What a recorder function can do when the callback kept the recorder
\* and calls with it after record has returned: the Recorder was a local of
\* ctx.record, the function checks the pointer for null only and writes
\* through it. The command reaches the recording the Recorder pointed at
\* ("pushed"), or the write goes elsewhere ("lost"), or the process stops
\* ("crashed").
DanglingOutcomes == {"pushed", "lost", "crashed"}

Dangling(outcome, r) ==
    IF r.done /\ outcome = "crashed"
    THEN [r EXCEPT !.escaped = TRUE, !.done = FALSE]
    ELSE r

RecorderCallAfterScope(t) ==
    /\ Idle
    /\ cbCalls # <<>>
    /\ \E op \in DOMAIN RecorderFunctions, outcome \in DanglingOutcomes :
        LET f == RecorderFunctions[op]
            p == cbCalls[Len(cbCalls)].recorder
        IN  \E q \in f.values :
                LET a == RecorderArgs(f, p, q)
                    r == Dangling(outcome, Passing(vello_recorder(f, a), f, q))
                IN  /\ Boundary(t, op, "status", a, r)
                    /\ rec' = IF r.done /\ outcome = "pushed"
                              THEN Recorder_push(rec, f.command)
                              ELSE rec
                    /\ UNCHANGED <<ctx, out, cbCalls, session, live, heap>>

\* vello_render_context_prepare_recording returning before the engine is
\* called
vello_render_context_prepare_recording_skipped(a, panic) ==
    IF a.ctx = NULL
    THEN Reject(-1, <<"Null context pointer">>)
    ELSE IF a.recording = NULL
    THEN Reject(-1, <<"Null recording pointer">>)
    ELSE [Ret(0) EXCEPT !.done = FALSE]

\* vello_render_context_prepare_recording: no catch_unwind around
\* ctx.prepare_recording
vello_render_context_prepare_recording(a, panic) ==
    IF a.ctx = NULL
    THEN Reject(-1, <<"Null context pointer">>)
    ELSE IF a.recording = NULL
    THEN Reject(-1, <<"Null recording pointer">>)
    ELSE Unguarded(panic, Ret(0))

PrepareRecording(t) ==
    /\ Idle
    /\ \E p \in {NULL, CTX}, q \in {NULL, REC}, panic \in Panics :
        LET a == [ctx |-> p, recording |-> q]
            r == vello_render_context_prepare_recording(a, panic)
        IN  /\ Boundary(t, "vello_render_context_prepare_recording", "status", a, r)
            /\ rec' = IF r.done THEN prepare_recording(rec) ELSE rec
            /\ UNCHANGED <<ctx, out, cbCalls, session, live, heap>>

\* an execute that fills the cache of the recording it replays
execute_recording_caching(r) == prepare_recording(r)

\* ctx.execute_recording(&recording.0): the recording is borrowed shared
\* (`&*recording`, from a *const VelloRecording), and is read only
execute_recording(r) == r

\* vello_render_context_execute_recording: no catch_unwind around
\* ctx.execute_recording
vello_render_context_execute_recording(a, panic) ==
    IF a.ctx = NULL
    THEN Reject(-1, <<"Null context pointer">>)
    ELSE IF a.recording = NULL
    THEN Reject(-1, <<"Null recording pointer">>)
    ELSE Unguarded(panic, Ret(0))

ExecuteRecording(t) ==
    /\ Idle
    /\ \E p \in {NULL, CTX}, q \in {NULL, REC}, panic \in Panics :
        LET a == [ctx |-> p, recording |-> q]
            r == vello_render_context_execute_recording(a, panic)
        IN  /\ Boundary(t, "vello_render_context_execute_recording", "status", a, r)
            /\ rec' = IF r.done THEN execute_recording(rec) ELSE rec
            /\ UNCHANGED <<ctx, out, cbCalls, session, live, heap>>

(***************************************************************************)
(* text.rs                                                                 *)
(***************************************************************************)
\* the texts the caller passes: a character the font maps ("a"), one it does
\* not map ("?"); INVALID is a byte string that is not UTF-8
INVALID == <<"\\xff">>
Texts == {<<>>, <<"a">>, <<"?", "a">>, <<"a", "a">>, INVALID}
PtrToText == {<<s>> : s \in Texts}

\* the fonts the caller holds: FONT parses, BAD_FONT was made from bytes
\* that are no font
BAD_FONT == "bad_font"

\* charmap.map(ch)
charmap_map(ch) == IF ch = "a" THEN Some(1) ELSE None

\* metrics.advance_width(glyph_id) of the font
advance_width(glyph_id) == IF glyph_id = 1 THEN Some(10) ELSE None

RECURSIVE GlyphLoop_unbounded(_, _, _, _, _)
RECURSIVE GlyphLoop(_, _, _, _, _)

\* the loop without its break at count >= max_glyphs and without a bound on
\* the index
GlyphLoop_unbounded(text, count, x_offset, memory, max_glyphs) ==
    IF text = <<>>
    THEN [count |-> count, glyphs |-> memory]
    ELSE LET g == charmap_map(Head(text))
         IN  IF g # None
             THEN GlyphLoop_unbounded(Tail(text), count + 1, x_offset + 10,
                      [memory EXCEPT ![count] = [id |-> g[1], x |-> x_offset, y |-> 0]],
                      max_glyphs)
             ELSE GlyphLoop_unbounded(Tail(text), count, x_offset, memory, max_glyphs)

\* the loop over text_str.chars(): glyphs_slice[count] is written for every
\* character the font maps, until count reaches max_glyphs; the count and
\* the memory after the loop
GlyphLoop(text, count, x_offset, memory, max_glyphs) ==
    IF text = <<>> \/ count >= max_glyphs
    THEN [count |-> count, glyphs |-> memory]
    ELSE LET g == charmap_map(Head(text))
         IN  IF g # None
             THEN LET advance == advance_width(g[1])
                  IN  GlyphLoop(Tail(text), count + 1,
                          IF advance # None THEN x_offset + advance[1] ELSE x_offset,
                          [memory EXCEPT ![count] = [id |-> g[1], x |-> x_offset, y |-> 0]],
                          max_glyphs)
             ELSE GlyphLoop(Tail(text), count, x_offset, memory, max_glyphs)

\* vello_font_data_text_to_glyphs: no guard; value is what the loop leaves
vello_font_data_text_to_glyphs(a) ==
    IF a.font = NULL \/ a.text = NullPtr \/ a.out_glyphs = NULL \/ a.out_count = NULL
    THEN Reject(VELLO_ERROR_NULL_POINTER, <<"Null pointer">>)
    ELSE IF a.text[1] = INVALID
    THEN Reject(VELLO_ERROR_INVALID_PARAMETER, <<"Invalid UTF-8">>)
    ELSE IF a.font = BAD_FONT
    THEN Reject(VELLO_ERROR_INVALID_PARAMETER, <<"Invalid font data">>)
    ELSE [Ret(VELLO_OK) EXCEPT
            !.value = GlyphLoop(a.text[1], 0, 0, GlyphMemory, a.max_glyphs)]

\* the caller passes memory it has not written to
TextToGlyphs(t) ==
    /\ Idle
    /\ \E f \in {NULL, FONT, BAD_FONT}, s \in {NullPtr} \cup PtrToText,
          g \in {NULL, "out_glyphs"}, c \in {NULL, "out_count"}, m \in 0..MaxGlyphs :
        LET a == [font |-> f, text |-> s, out_glyphs |-> g, out_count |-> c,
                  max_glyphs |-> m]
            r == vello_font_data_text_to_glyphs(a)
        IN  /\ Boundary(t, "vello_font_data_text_to_glyphs", "status", a,
                        [r EXCEPT !.value = 0])
            /\ out' = IF r.done
                      THEN [out EXCEPT !.glyphs = r.value.glyphs,
                                       !.count = Some(r.value.count)]
                      ELSE out
            /\ UNCHANGED <<ctx, rec, cbCalls, session, live, heap>>

(***************************************************************************)
(* The constructors and the free functions                                 *)
(***************************************************************************)
\* vello_pixmap_new: no arguments to check, the body is guarded
vello_pixmap_new(panic) == ffi_catch_ptr(panic, RetPtr("new_pixmap"))

PixmapNew(t) ==
    /\ Idle
    /\ HasRoom("pixmap", live)
    /\ \E panic \in Panics :
        LET r == Box_into_raw("pixmap", live, vello_pixmap_new(panic))
        IN  /\ Boundary(t, "vello_pixmap_new", "ptr", <<>>, r)
            /\ live' = Allocated(live, r)
            /\ heap' = Boxed(heap, r, Own(<<PixmapWidth, PixmapHeight>>))
            /\ UNCHANGED <<engine, session>>

\* vello_bezpath_new
vello_bezpath_new(panic) == ffi_catch_ptr(panic, RetPtr("new_path"))

BezPathNew(t) ==
    /\ Idle
    /\ HasRoom("path", live)
    /\ \E panic \in Panics :
        LET r == Box_into_raw("path", live, vello_bezpath_new(panic))
        IN  /\ Boundary(t, "vello_bezpath_new", "ptr", <<>>, r)
            /\ live' = Allocated(live, r)
            /\ UNCHANGED <<engine, session, heap>>

\* vello_image_new_from_pixmap
vello_image_new_from_pixmap(p, panic) ==
    IF p = NULL
    THEN RejectPtr(<<"Null pixmap pointer">>)
    ELSE ffi_catch_ptr(panic, RetPtr("new_image"))

ImageNewFromPixmap(t) ==
    /\ Idle
    /\ HasRoom("image", live)
    /\ \E p \in {NULL} \cup (Pixmaps \cap live), panic \in Panics :
        LET r == Box_into_raw("image", live, vello_image_new_from_pixmap(p, panic))
        IN  /\ Boundary(t, "vello_image_new_from_pixmap", "ptr", [pixmap |-> p], r)
            /\ live' = Allocated(live, r)
            /\ heap' = Boxed(heap, r, Pixmap_clone(heap, p))
            /\ UNCHANGED <<engine, session>>

\* vello_font_data_new
vello_font_data_new(a, panic) ==
    IF a.data = NULL \/ a.len = 0
    THEN RejectPtr(<<"Null or empty font data">>)
    ELSE ffi_catch_ptr(panic, RetPtr("new_font"))

FontDataNew(t) ==
    /\ Idle
    /\ HasRoom("font", live)
    /\ \E d \in {NULL, "data"}, n \in {0, 1}, panic \in Panics :
        LET a == [data |-> d, len |-> n]
            r == Box_into_raw("font", live, vello_font_data_new(a, panic))
        IN  /\ Boundary(t, "vello_font_data_new", "ptr", a, r)
            /\ live' = Allocated(live, r)
            /\ UNCHANGED <<engine, session, heap>>

\* vello_recording_new: no arguments, no guard
vello_recording_new == RetPtr("new_recording")

RecordingNew(t) ==
    /\ Idle
    /\ HasRoom("recording", live)
    /\ LET r == Box_into_raw("recording", live, vello_recording_new)
       IN  /\ Boundary(t, "vello_recording_new", "ptr", <<>>, r)
           /\ live' = Allocated(live, r)
           /\ UNCHANGED <<engine, session, heap>>

\* The free functions: the kind of handle each releases and the name of its
\* parameter
FreeFunctions ==
    [vello_render_context_free |-> [kind |-> "context", arg |-> "ctx"],
     vello_pixmap_free |-> [kind |-> "pixmap", arg |-> "pixmap"],
     vello_bezpath_free |-> [kind |-> "path", arg |-> "path"],
     vello_mask_free |-> [kind |-> "mask", arg |-> "mask"],
     vello_image_free |-> [kind |-> "image", arg |-> "image"],
     vello_font_data_free |-> [kind |-> "font", arg |-> "font"],
     vello_recording_free |-> [kind |-> "recording", arg |-> "recording"]]

\* the handles of a kind the caller has created and may free, and null
Freeable(kind) == {NULL} \cup (Addresses(kind) \cap live)

\* vello_*_free: `if !p.is_null() { drop(Box::from_raw(p)) }`; nothing is
\* returned and no message is recorded
FreeHandle(t) ==
    /\ Idle
    /\ \E op \in DOMAIN FreeFunctions :
        LET f == FreeFunctions[op]
        IN  \E p \in Freeable(f.kind) :
                /\ ncalls' = ncalls + 1
                /\ call' = [NoCall EXCEPT !.op = op, !.thread = t,
                                          !.args = [k \in {f.arg} |-> p]]
                /\ live' = Box_from_raw_drop(live, p)
                /\ heap' = Dropped(heap, p)
                /\ UNCHANGED <<lastError, boundary, engine, session, fixed>>

Call(t) ==
        \/ GetLastError(t)
        \/ ClearLastError(t)
        \/ RenderContextNew(t)
        \/ RenderContextWidth(t)
        \/ RenderContextHeight(t)
        \/ SetPaintSolid(t)
        \/ SetPaintLinearGradient(t)
        \/ SetPaintRadialGradient(t)
        \/ SetPaintSweepGradient(t)
        \/ SetTransform(t)
        \/ SetStroke(t)
        \/ SetFillRule(t)
        \/ GetFillRule(t)
        \/ RenderToBuffer(t)
        \/ PixmapSample(t)
        \/ SetPaintImage(t)
        \/ MaskNewAlpha(t)
        \/ MaskGetWidth(t)
        \/ MaskGetHeight(t)
        \/ TestEchoRenderSettings(t)
        \/ RecordingClear(t)
        \/ RecordingLen(t)
        \/ RecordingHasCachedStrips(t)
        \/ RecordingStripCount(t)
        \/ RecordingAlphaCount(t)
        \/ Record(t)
        \/ CallbackReturn(t)
        \/ RecorderCall(t)
        \/ PrepareRecording(t)
        \/ ExecuteRecording(t)
        \/ TextToGlyphs(t)
        \/ PushLayer(t)
        \/ FreeHandle(t)
        \/ PixmapNew(t)
        \/ BezPathNew(t)
        \/ ImageNewFromPixmap(t)
        \/ FontDataNew(t)
        \/ RecordingNew(t)

Next == Return \/ \E t \in Threads : Call(t)

Spec == Init /\ [][Next]_vars


(***************************************************************************)
(* render_to_buffer on every build                                         *)
(***************************************************************************)
InitBuffer ==
    /\ Start
    /\ budget = MaxCalls
    /\ build \in Builds

NextBuffer == Return \/ \E t \in Threads : RenderToBuffer(t)

SpecBuffer == InitBuffer /\ [][NextBuffer]_vars

(***************************************************************************)
(* One recording, from one thread: record, prepare, execute, clear         *)
(***************************************************************************)
InitRecording ==
    /\ Start
    /\ budget = MaxRecordingCalls
    /\ build = Build64

RecordingCall(t) ==
    \/ RecordingClear(t)
    \/ RecordingLen(t)
    \/ RecordingHasCachedStrips(t)
    \/ RecordingStripCount(t)
    \/ RecordingAlphaCount(t)
    \/ Record(t)
    \/ CallbackReturn(t)
    \/ RecorderCall(t)
    \/ PrepareRecording(t)
    \/ ExecuteRecording(t)

NextRecording == Return \/ RecordingCall("t1")

SpecRecording == InitRecording /\ [][NextRecording]_vars

(***************************************************************************)
(* The sessions of record, and a recorder kept after its session           *)
(***************************************************************************)
InitSession ==
    /\ Start
    /\ budget = MaxSessionCalls
    /\ build = Build64

SessionCall(t) ==
    \/ Record(t)
    \/ CallbackReturn(t)
    \/ RecorderCall(t)
    \/ RecorderCallAfterScope(t)
    \/ RecordingLen(t)

NextSession == Return \/ SessionCall("t1")

SpecSession == InitSession /\ [][NextSession]_vars

(***************************************************************************)
(* The drawing state of one context: its setters and its getters           *)
(***************************************************************************)
MaxContextCalls == 3

InitContext ==
    /\ Start
    /\ budget = MaxContextCalls
    /\ build = Build64

ContextCall(t) ==
    \/ SetTransform(t)
    \/ GetTransform(t)
    \/ SetPaintTransform(t)
    \/ GetPaintTransform(t)
    \/ SetStroke(t)
    \/ GetStroke(t)
    \/ SetAliasingThreshold(t)

NextContext == Return \/ ContextCall("t1")

SpecContext == InitContext /\ [][NextContext]_vars

(***************************************************************************)
(* Contexts made with render settings, on every machine                    *)
(***************************************************************************)
InitSettings ==
    /\ Start
    /\ budget = MaxCalls
    /\ build \in Machines

SettingsCall(t) ==
    \/ RenderContextNewWith(t)
    \/ GetRenderSettings(t)

NextSettings == Return \/ SettingsCall("t1")

SpecSettings == InitSettings /\ [][NextSettings]_vars

(***************************************************************************)
(* Pixmaps, the images and masks made from them, and the context           *)
(***************************************************************************)
MaxShareCalls == 3

InitShare ==
    /\ Start
    /\ budget = MaxShareCalls
    /\ build = Build64

ShareCall(t) ==
    \/ PixmapNew(t)
    \/ PixmapResize(t)
    \/ ImageNewFromPixmap(t)
    \/ MaskNewAlpha(t)
    \/ SetPaintImage(t)
    \/ PushLayer(t)
    \/ FreeHandle(t)

NextShare == Return \/ ShareCall("t1")

SpecShare == InitShare /\ [][NextShare]_vars

(***************************************************************************)
(* The same values given to the context and to a recorder                  *)
(***************************************************************************)
MaxMarshalCalls == 3

InitMarshal ==
    /\ Start
    /\ budget = MaxMarshalCalls
    /\ build = Build64

MarshalCall(t) ==
    \/ SetPaintSolid(t)
    \/ SetTransform(t)
    \/ SetPaintTransform(t)
    \/ SetStroke(t)
    \/ SetFillRule(t)
    \/ DrawRect(t)
    \/ Record(t)
    \/ CallbackReturn(t)
    \/ RecorderCall(t)

NextMarshal == Return \/ MarshalCall("t1")

SpecMarshal == InitMarshal /\ [][NextMarshal]_vars

(***************************************************************************)
(* Texts turned into glyphs                                                *)
(***************************************************************************)
MaxTextCalls == 2

InitText ==
    /\ Start
    /\ budget = MaxTextCalls
    /\ build = Build64

NextText == Return \/ TextToGlyphs("t1")

SpecText == InitText /\ [][NextText]_vars

(***************************************************************************)
(* Properties of the boundary                                              *)
(***************************************************************************)
\* the arguments that are handles
HandleFields ==
    {"ctx", "recording", "pixmap", "path", "mask", "font", "recorder", "image"}

\* the handles a call may be given as null, for none: the mask of push_layer
OptionalHandles(c) ==
    IF c.op = "vello_render_context_push_layer" THEN {"mask"} ELSE {}

\* call c was made with a null handle where it needs one
NullHandle(c) ==
    \E k \in ((DOMAIN c.args) \cap HandleFields) \ OptionalHandles(c) : c.args[k] = NULL

\* message m starts with the prefix ffi_catch gives a panic
HasPanicPrefix(m) == Len(m) >= 1 /\ m[1] = "Panic: "

\* the calls whose only check is the null check of their one handle
SimpleOps ==
    {"vello_render_context_set_paint_solid", "vello_render_context_set_fill_rule",
     "vello_recording_clear"}

\* a step that makes a boundary call and returns from it
CallStep == call = NoCall /\ call' # NoCall

\* C1: a fault raised while a boundary call runs never leaves the call: no
\* call ends by unwinding to the foreign caller.
C1_FaultContained == boundary = "intact" /\ call.kind # "unwound"

C4_SlotOverwrittenOnFailure ==
    [][ ( /\ CallStep
          /\ call'.kind # "unwound"
          /\ call'.op \notin {"vello_get_last_error", "vello_clear_last_error"} ) =>
           /\ call'.failed =>
                 /\ call'.err # None
                 /\ lastError'[call'.thread] = call'.err
           /\ ~call'.failed => lastError'[call'.thread] = lastError[call'.thread]
      ]_vars

\* C5: a failing call returns a negative status, or null from a constructor,
\* and leaves a non-empty message in the slot of its thread.
C5_FailureHasStatusAndMessage ==
    (call.failed /\ call.kind # "unwound") =>
        /\ \/ call.kind = "status" /\ call.status < 0
           \/ call.kind = "ptr" /\ call.ptr = NULL
        /\ lastError[call.thread] # None
        /\ lastError[call.thread][1] # <<>>

\* C6: the slot of a thread changes only in a call of that thread, to the
\* message of that call or to None by a clear; vello_get_last_error returns
\* the slot of the thread that calls it.
C6_SlotPerThread ==
    [][ \A u \in Threads :
          /\ lastError'[u] # lastError[u] =>
                /\ CallStep
                /\ call'.thread = u
                /\ \/ call'.failed /\ lastError'[u] = call'.err
                   \/ call'.op = "vello_clear_last_error" /\ lastError'[u] = None
          /\ (CallStep /\ call'.op = "vello_get_last_error" /\ call'.thread = u) =>
                call'.text = lastError[u]
      ]_vars

\* a thread queries its empty slot while the other thread's slot holds the
\* message of a failure
C6_Witness ==
    /\ call.op = "vello_get_last_error"
    /\ call.text = None
    /\ \E u \in Threads \ {call.thread} : lastError[u] # None

\* C7: a clear leaves the slot of its thread None, whether it held a
\* message or not, so a second clear changes nothing; an empty slot stays
\* empty, and vello_get_last_error returns null, until a failing call of
\* that thread.
C7_ClearIdempotent ==
    [][ /\ (CallStep /\ call'.op = "vello_clear_last_error") =>
              /\ lastError'[call'.thread] = None
              /\ vello_clear_last_error(lastError', call'.thread) = lastError'
        /\ \A u \in Threads :
              /\ (lastError[u] = None /\ lastError'[u] # None) =>
                    CallStep /\ call'.thread = u /\ call'.failed
              /\ ( /\ CallStep
                   /\ call'.op = "vello_get_last_error"
                   /\ call'.thread = u
                   /\ lastError[u] = None ) => call'.text = None
      ]_vars

\* a clear dropped a pending message
C7_Witness ==
    /\ call.op = "vello_clear_last_error"
    /\ call.cleared # None
    /\ lastError[call.thread] = None

\* C8 as stated: a call rejected with -1 or -5 has not entered a guarded
\* body, and no rejection has status -3.
C8_ValidationBeforeGuard ==
    (call.failed /\ call.panic = NoPanic /\ call.kind = "status") =>
        /\ ~call.entered
        /\ call.status # VELLO_ERROR_RENDER_FAILED

\* the calls that make a range check inside their guarded body
RangeCheckedInGuard ==
    {"vello_render_context_render_to_buffer", "vello_pixmap_sample",
     "vello_render_context_set_paint_image"}

\* C8 as the code has it: the null checks are made before the guarded body;
\* the range checks of render_to_buffer, pixmap_sample and set_paint_image
\* are made inside it; a rejection never has status -3.
C8_NullChecksBeforeGuard ==
    (call.failed /\ call.panic = NoPanic /\ call.kind = "status") =>
        /\ call.status \in {VELLO_ERROR_NULL_POINTER, VELLO_ERROR_INVALID_PARAMETER}
        /\ call.status = VELLO_ERROR_NULL_POINTER => ~call.entered
        /\ call.entered =>
              /\ call.op \in RangeCheckedInGuard
              /\ call.status = VELLO_ERROR_INVALID_PARAMETER
        /\ (call.op \in RangeCheckedInGuard /\ call.status = VELLO_ERROR_INVALID_PARAMETER)
              => call.entered

\* render_to_buffer rejected a buffer that is too small, inside its guard
C8_Witness ==
    /\ call.op = "vello_render_context_render_to_buffer"
    /\ call.status = VELLO_ERROR_INVALID_PARAMETER
    /\ call.entered
    /\ call.args.buffer_len < call.args.width * call.args.height * 4

\* C9: a call that returns -1 or -5 leaves the context, the recording and
\* the caller's out-parameters as they were, and invokes no callback.
C9_RejectionLeavesEngine ==
    [][ ( /\ CallStep
          /\ call'.kind = "status"
          /\ call'.status \in {VELLO_ERROR_NULL_POINTER, VELLO_ERROR_INVALID_PARAMETER} ) =>
           /\ ctx' = ctx
           /\ rec' = rec
           /\ out' = out
           /\ cbCalls' = cbCalls
           /\ session' = session
      ]_vars

\* record was rejected for a null argument after the paint was changed: the
\* callback was not invoked and the paint is still the changed one
C9_Witness ==
    /\ call.op = "vello_render_context_record"
    /\ call.status = VELLO_ERROR_NULL_POINTER
    /\ cbCalls = <<>>
    /\ ctx.paint.kind = "linear"

GradientOps ==
    {"vello_render_context_set_paint_linear_gradient",
     "vello_render_context_set_paint_radial_gradient",
     "vello_render_context_set_paint_sweep_gradient"}

\* C10 as stated: on a live context, a gradient setter called with
\* stop_count 0 or 1 returns -5 whatever the stops pointer is.
C10_FewStopsInvalidParameter ==
    ( /\ call.op \in GradientOps
      /\ call.args.ctx # NULL
      /\ call.args.stop_count < 2 ) => call.status = VELLO_ERROR_INVALID_PARAMETER

\* C10 as the code has it: on a live context, a gradient setter called with
\* stop_count 0, or with stop_count 1 and a stops pointer that is not null,
\* returns -5; with stop_count 1 and a null stops pointer it returns -1; in
\* both cases the guarded body is not entered and the paint is unchanged.
C10_FewStopsRejected ==
    [][ ( /\ CallStep
          /\ call'.op \in GradientOps
          /\ call'.args.ctx # NULL
          /\ call'.args.stop_count < 2 ) =>
           /\ call'.failed
           /\ ~call'.entered
           /\ call'.status =
                 IF call'.args.stop_count > 0 /\ call'.args.stops = NULL
                 THEN VELLO_ERROR_NULL_POINTER
                 ELSE VELLO_ERROR_INVALID_PARAMETER
           /\ ctx'.paint = ctx.paint
      ]_vars

\* a gradient setter got one stop behind a null pointer, after the paint
\* had been set to a gradient
C10_Witness ==
    /\ call.op \in GradientOps
    /\ call.args.ctx # NULL
    /\ call.args.stop_count = 1
    /\ call.args.stops = NULL
    /\ call.status = VELLO_ERROR_NULL_POINTER
    /\ ctx.paint.kind \in {"linear", "radial", "sweep"}

\* C11: render_to_buffer with buffer_len < width*height*4 returns -5 and
\* writes no byte; with buffer_len >= width*height*4 every byte it writes is
\* at an index below width*height*4, so below buffer_len.  (buffer_len is
\* compared with the product in units of 4 bytes.)
C11_NoWritePastLength ==
    [][ ( /\ CallStep
          /\ call'.op = "vello_render_context_render_to_buffer"
          /\ call'.args.ctx # NULL
          /\ call'.args.buffer # NULL ) =>
           LET a == call'.args
           IN  IF (a.buffer_len \div 4) < a.width * a.height
               THEN /\ call'.status = VELLO_ERROR_INVALID_PARAMETER
                    /\ out'.buffer = out.buffer
               ELSE \/ out'.buffer = out.buffer
                    \/ /\ out'.buffer # None
                       /\ out'.buffer[1] <= a.width * a.height * 4
                       /\ out'.buffer[1] <= a.buffer_len
      ]_vars

FreeOps == DOMAIN FreeFunctions

\* the handle a free was called with
Freed(c) == c.args[CHOOSE k \in DOMAIN c.args : TRUE]

\* C12: free(null) changes no live handle, no drawing state and no slot; a
\* handle a constructor returns is live from then on, and a live handle
\* stops being live only in a free of that handle, which ends no other.
C12_HandleLifecycle ==
    [][ /\ (CallStep /\ call'.op \in FreeOps) =>
              /\ lastError' = lastError
              /\ engine' = engine
              /\ boundary' = boundary
              /\ IF Freed(call') = NULL
                 THEN live' = live
                 ELSE live' = live \ {Freed(call')} /\ Freed(call') \in live
        /\ (CallStep /\ call'.kind = "ptr" /\ call'.ptr # NULL) =>
              /\ call'.ptr \notin live
              /\ live' = live \cup {call'.ptr}
        /\ \A h \in live \ live' :
              CallStep /\ call'.op \in FreeOps /\ Freed(call') = h
      ]_vars

\* a handle the caller created was freed, and the others are still live
C12_Witness ==
    /\ call.op = "vello_recording_free"
    /\ call.args.recording = "recording_1"
    /\ "recording_1" \notin live
    /\ REC \in live
    /\ ncalls = 2

(***************************************************************************)
(* Properties of the recording                                             *)
(***************************************************************************)
\* the state Empty: no commands and no cache, as the four getters report it
Empty(r) ==
    /\ vello_recording_len(r, REC).value = 0
    /\ vello_recording_has_cached_strips(r, REC).value = 0
    /\ vello_recording_strip_count(r, REC).value = 0
    /\ vello_recording_alpha_count(r, REC).value = 0

\* C13: vello_recording_clear on a non-null recording returns success and
\* leaves the recording Empty, whatever state it was in.
C13_ClearGivesEmpty ==
    [][ (CallStep /\ call'.op = "vello_recording_clear"
                  /\ call'.args.recording # NULL) =>
            /\ call'.status = 0
            /\ ~call'.failed
            /\ Empty(rec')
      ]_vars

\* a recording that was recorded into and prepared has been cleared
C13_Witness ==
    /\ call.op = "vello_recording_clear"
    /\ call.args.recording = REC
    /\ call.status = 0
    /\ Empty(rec)
    /\ Len(cbCalls) = 1
    /\ ncalls = 4

\* a recorder function has returned
RecorderStep == CallStep /\ call'.op \in DOMAIN RecorderFunctions

\* C14: a recorder call that returns success adds exactly one command, its
\* own, at the end of the log, so that the command count grows by one; the
\* four calls of the scenario give a count of 4.
C14_AppendsExactlyOne ==
    [][ (RecorderStep /\ session # None /\ call'.status = 0) =>
            /\ rec'.commands =
                   Append(rec.commands, RecorderFunctions[call'.op].command)
            /\ vello_recording_len(rec', REC).value =
                   vello_recording_len(rec, REC).value + 1
            /\ (/\ rec.commands = <<"SetPaint", "FillRect", "PushClipLayer">>
                /\ call'.op = "vello_recorder_pop_layer")
               => vello_recording_len(rec', REC).value = 4
      ]_vars

\* the scenario: solid paint, fill rect, push clip layer, pop layer, recorded
\* into the empty recording in one session
C14_Witness ==
    /\ call.op = "vello_recorder_pop_layer"
    /\ call.status = 0
    /\ ~call.failed
    /\ rec.commands = <<"SetPaint", "FillRect", "PushClipLayer", "PopLayer">>
    /\ vello_recording_len(rec, REC).value = 4
    /\ ncalls = 5

\* prepare has returned success
PrepareStep ==
    /\ CallStep
    /\ call'.op = "vello_render_context_prepare_recording"
    /\ call'.status = 0
    /\ ~call'.failed

\* the recording with its cache dropped
WithoutCache(r) == [r EXCEPT !.strips = 0, !.alphas = 0]

\* C15: a command appended to a recording that holds cached data leaves the
\* recording without cached data (has_cached_strips false, both counts 0);
\* the cache stays empty until a prepare, and what a prepare stores is
\* computed from the commands of the log, not from the cache it finds.
C15_AppendInvalidatesCache ==
    [][ /\ (RecorderStep /\ rec'.commands # rec.commands) =>
              /\ vello_recording_has_cached_strips(rec', REC).value = 0
              /\ vello_recording_strip_count(rec', REC).value = 0
              /\ vello_recording_alpha_count(rec', REC).value = 0
        /\ (~Recording_has_cached_strips(rec) /\ Recording_has_cached_strips(rec'))
              => PrepareStep
        /\ PrepareStep => rec' = prepare_recording(WithoutCache(rec))
      ]_vars

\* a second session has appended a command to a recording that the first
\* session filled and a prepare gave a cache
C15_Witness ==
    /\ call.op = "vello_recorder_fill_rect"
    /\ call.status = 0
    /\ rec.commands = <<"FillRect", "FillRect">>
    /\ ~Recording_has_cached_strips(rec)
    /\ Len(cbCalls) = 2
    /\ ncalls = 5

\* what the three getters of the cache report
CacheReport(r) ==
    <<vello_recording_has_cached_strips(r, REC).value,
      vello_recording_strip_count(r, REC).value,
      vello_recording_alpha_count(r, REC).value>>

\* C16: a new recording reports no cached strips, strip_count 0 and
\* alpha_count 0, and a report other than that appears only in a successful
\* prepare (and then stays as it is until the next prepare, append or clear):
\* a recording not prepared since it was created or cleared reports zero,
\* whatever it holds.
C16_NoCacheWithoutPrepare ==
    /\ CacheReport(rec) = <<0, 0, 0>>
    /\ [][ CacheReport(rec') # <<0, 0, 0>> =>
              \/ PrepareStep
              \/ CacheReport(rec') = CacheReport(rec)
         ]_vars

\* two commands were recorded, nothing was prepared, and strip_count is
\* asked for
C16_Witness ==
    /\ call.op = "vello_recording_strip_count"
    /\ call.args.recording = REC
    /\ call.value = 0
    /\ Len(rec.commands) = 2
    /\ CacheReport(rec) = <<0, 0, 0>>
    /\ Len(cbCalls) = 1
    /\ ncalls = 4

\* the commands that fill geometry, and those that only set drawing state
GeometryFillCommands == {"FillRect", "FillPath"}
StateCommands ==
    {"SetPaint", "SetTransform", "SetPaintTransform", "ResetPaintTransform",
     "SetStroke", "SetFillRule"}

Commands(r) == {r.commands[i] : i \in 1..Len(r.commands)}

\* C17: when prepare has returned 0, strip_count is positive if the log holds
\* a command that fills geometry, and 0 if it holds only commands that set
\* paint, transform, stroke or fill rule.
C17_StripsIffGeometry ==
    [][ (/\ CallStep
         /\ call'.op = "vello_render_context_prepare_recording"
         /\ call'.kind = "status"
         /\ call'.status = 0) =>
            /\ Commands(rec') \cap GeometryFillCommands # {} =>
                   vello_recording_strip_count(rec', REC).value > 0
            /\ Commands(rec') \subseteq StateCommands =>
                   vello_recording_strip_count(rec', REC).value = 0
      ]_vars

\* a paint and a filled rectangle were recorded and prepared
C17_Witness ==
    /\ call.op = "vello_render_context_prepare_recording"
    /\ call.status = 0
    /\ ~call.failed
    /\ rec.commands = <<"SetPaint", "FillRect">>
    /\ vello_recording_strip_count(rec, REC).value > 0

\* C18: vello_render_context_execute_recording leaves the recording as it
\* was: the command count, has_cached_strips, strip_count and alpha_count
\* are the same after the call as before, whatever the state of the
\* recording and however the call ends.
C18_ExecuteLeavesRecording ==
    [][ (CallStep /\ call'.op = "vello_render_context_execute_recording") =>
            /\ rec' = rec
            /\ vello_recording_len(rec', REC).value = vello_recording_len(rec, REC).value
            /\ CacheReport(rec') = CacheReport(rec)
      ]_vars

\* a recording that was recorded into and prepared has been executed
C18_Witness ==
    /\ call.op = "vello_render_context_execute_recording"
    /\ call.args.recording = REC
    /\ call.status = 0
    /\ ~call.failed
    /\ rec.commands = <<"FillRect">>
    /\ CacheReport(rec) = <<1, 1, 1>>
    /\ ncalls = 5

(***************************************************************************)
(* Properties of the recording session                                     *)
(***************************************************************************)
\* record has returned success
RecordReturns ==
    /\ CallStep
    /\ call'.op = "vello_render_context_record"
    /\ call'.status = 0
    /\ ~call'.failed

\* the callback is invoked once for a record that succeeds, with the
\* user_data of that call and a recorder, before record returns, and at no
\* other time
InvokedOnceInside ==
    /\ (session = None /\ session' # None) =>
           /\ Len(cbCalls') = Len(cbCalls) + 1
           /\ cbCalls'[Len(cbCalls')].recorder # NULL
    /\ cbCalls' # cbCalls => (session = None /\ session' # None)
    /\ RecordReturns =>
           /\ session = Some(call'.thread)
           /\ session' = None
           /\ cbCalls[Len(cbCalls)].callback = call'.args.callback
           /\ cbCalls[Len(cbCalls)].user_data = call'.args.user_data

\* C19: a record that succeeds invokes the callback exactly once, before it
\* returns, with the user_data of the call and a recorder, and no recorder
\* function called after the callback has returned changes the recording.
C19_RecorderScoped ==
    [][ /\ InvokedOnceInside
        /\ (RecorderStep /\ session = None) => rec' = rec
      ]_vars

\* the call passes a recorder and, where the function takes a pointer, a
\* pointer that is not null
NonNullArguments(c) ==
    LET f == RecorderFunctions[c.op]
    IN  /\ c.args.recorder # NULL
        /\ f.checked => c.args[f.arg[1]] # f.null

\* C20: a recorder function called during a session leaves the context as it
\* is (paint, transform, stroke, fill rule, size) and draws nothing, and,
\* called with non-null arguments, returns success and records no error.
C20_RecorderLeavesContext ==
    [][ (RecorderStep /\ session # None) =>
            /\ ctx' = ctx
            /\ out' = out
            /\ NonNullArguments(call') =>
                   /\ call'.kind = "status"
                   /\ call'.status = 0
                   /\ ~call'.failed
                   /\ lastError' = lastError
      ]_vars

\* the recorder was given a transform that is not the identity, and the
\* context still has the identity
C20_Witness ==
    /\ call.op = "vello_recorder_set_transform"
    /\ call.status = 0
    /\ ~call.failed
    /\ call.args.affine[1].m11 = 2
    /\ rec.commands = <<"SetTransform">>
    /\ ctx.transform = IDENTITY

(***************************************************************************)
(* Properties of the marshalled values                                     *)
(***************************************************************************)
\* C30: the length render_to_buffer requires is the product width*height*4
\* itself (here in units of 4 bytes), for every width and height, and a call
\* whose buffer_len is below the product is refused: it is not accepted as
\* long enough, whatever the build.
C30_RequiredLenExact ==
    (/\ call.op = "vello_render_context_render_to_buffer"
     /\ call.args.ctx # NULL
     /\ call.args.buffer # NULL) =>
        /\ required_len_div_4(call.args, build) = Pixels(call.args)
        /\ (call.args.buffer_len \div 4) < Pixels(call.args) =>
               \/ call.status = VELLO_ERROR_INVALID_PARAMETER
               \/ call.panic = OverflowPanic

\* the step is a successful call of getter op
Got(op) == CallStep /\ call'.op = op /\ ~call'.failed

\* C22: a getter of a transform returns, field by field (m11, m12, m13, m21,
\* m22, m23), the VelloAffine the last successful call of its setter was
\* given, for the transform and for the paint transform alike.
C22_TransformRoundTrip ==
    [][ /\ ( Got("vello_render_context_get_transform")
             /\ out.given.transform # None ) =>
                out'.transform = out.given.transform
        /\ ( Got("vello_render_context_get_paint_transform")
             /\ out.given.paint_transform # None ) =>
                out'.transform = out.given.paint_transform
      ]_vars

\* both transforms were set, to different values, and the paint transform read
C22_Witness ==
    /\ call.op = "vello_render_context_get_paint_transform"
    /\ ~call.failed
    /\ out.given.transform # None
    /\ out.given.paint_transform # None
    /\ out.given.paint_transform # out.given.transform
    /\ out.transform = out.given.paint_transform
    /\ out.transform[1].m13 = 4

C25_ThresholdClamped ==
    /\ ctx.aliasing_threshold # None => ctx.aliasing_threshold[1] \in 0..255
    /\ ( call.op = "vello_render_context_set_aliasing_threshold" /\ ~call.failed ) =>
          LET th == call.args.threshold
          IN  ctx.aliasing_threshold =
                 IF th < 0 THEN None
                 ELSE Some(IF th < 255 THEN th ELSE 255)

\* an input above 255 was given and 255 reached the engine
C25_Witness ==
    /\ call.op = "vello_render_context_set_aliasing_threshold"
    /\ ~call.failed
    /\ call.args.threshold = 256
    /\ ctx.aliasing_threshold = Some(255)

\* C23: the tags of the render settings map one-to-one onto the engine's
\* values in both directions: get_render_settings reports, for a context made
\* by new_with, the SIMD tier and the render mode new_with was given.
C23_SettingsRoundTrip ==
    [][ Got("vello_render_context_get_render_settings") =>
          \A g \in out.given.settings :
              g.ptr = call'.args.ctx =>
                  /\ out'.render_settings[1].level = g.settings.level
                  /\ out'.render_settings[1].render_mode = g.settings.render_mode
      ]_vars

\* C26: set_paint_image accepts only an image whose opacity is exactly 1.0:
\* with an image of any other opacity, however close to 1.0 and a
\* not-a-number included, it returns the invalid-parameter status, records a
\* message and leaves the paint of the context as it was.
C26_OnlyOpaqueAccepted ==
    [][ ( /\ CallStep
          /\ call'.op = "vello_render_context_set_paint_image"
          /\ call'.args.ctx # NULL
          /\ call'.args.image # NULL
          /\ call'.args.image # "opaque" ) =>
            /\ call'.status = VELLO_ERROR_INVALID_PARAMETER
            /\ call'.err # None
            /\ lastError'[call'.thread] = call'.err
            /\ ctx'.paint = ctx.paint
      ]_vars

\* the pixels of the paint and of the masks of the layers, as the context
\* sees them
Seen(h, x) == IF x.own THEN x.value ELSE h[x.ref].value
ContextPixels(c, h) ==
    <<IF "pixels" \in DOMAIN c.paint THEN Some(Seen(h, c.paint.pixels)) ELSE None,
      [n \in 1..Len(c.layers) |->
          IF c.layers[n] = None THEN None ELSE Some(Seen(h, c.layers[n][1]))]>>

\* the step resizes or frees pixmap p / frees image or mask p
PixmapStep(p) ==
    /\ CallStep
    /\ call'.op \in {"vello_pixmap_resize", "vello_pixmap_free"}
    /\ call'.args.pixmap = p
    /\ ~call'.failed
HolderFreeStep ==
    /\ CallStep
    /\ call'.op \in {"vello_image_free", "vello_mask_free"}

\* C27: handles share no state.  A resize or a free of a pixmap leaves every
\* image and every mask live, with the pixels it had; a free of an image or
\* of a mask leaves the context, its paint and the masks of its layers as
\* they were.
C27_NoSharedState ==
    [][ /\ \A p \in Pixmaps :
              PixmapStep(p) =>
                  \A i \in Holders \cap live :
                      i \in live' /\ PixelsOf(heap', i) = PixelsOf(heap, i)
        /\ HolderFreeStep =>
              ctx' = ctx /\ ContextPixels(ctx', heap') = ContextPixels(ctx, heap)
      ]_vars

\* an image made from a pixmap the caller created keeps its pixels after the
\* pixmap was freed
C27_Witness ==
    /\ call.op = "vello_pixmap_free"
    /\ call.args.pixmap = "pixmap_1"
    /\ "pixmap_1" \notin live
    /\ "image_1" \in live
    /\ PixelsOf(heap, "image_1") = <<PixmapWidth, PixmapHeight>>

\* the function of the context each of these recorder functions stands for,
\* by the place where the caller's memory keeps what the context was given
ContextTwin ==
    [vello_recorder_set_transform |-> "transform",
     vello_recorder_set_paint_transform |-> "paint_transform",
     vello_recorder_set_stroke |-> "stroke",
     vello_recorder_set_fill_rule |-> "fill_rule",
     vello_recorder_set_paint_solid |-> "color",
     vello_recorder_fill_rect |-> "FillRect",
     vello_recorder_stroke_rect |-> "StrokeRect"]

\* what the context holds of the value it was given last
ContextValue(key) ==
    CASE key = "transform" -> [affine |-> ctx.transform]
      [] key = "paint_transform" -> [affine |-> ctx.paint_transform]
      [] key = "stroke" -> [stroke |-> ctx.stroke]
      [] key = "fill_rule" -> [fill |-> ctx.fill_rule]
      [] key = "color" -> [color |-> ctx.paint.color]
      [] key \in {"FillRect", "StrokeRect"} -> [rect |-> ctx.drawn[key][1]]

\* the value the recorder function of call c was given
Passed(c) ==
    LET f == RecorderFunctions[c.op]
        q == c.args[f.arg[1]]
    IN  IF f.checked THEN q ELSE Some(q)

\* C28: a recorder function that is given the value the context was last
\* given by the function it stands for passes its Recorder the value the
\* context holds: same coefficients in the same order, same stroke, same
\* fill rule, same colour, same rectangle.
C28_RecorderMarshalsAsContext ==
    ( /\ call.op \in DOMAIN ContextTwin
      /\ ~call.failed
      /\ out.given[ContextTwin[call.op]] = Passed(call) ) =>
          call.passed = Some(ContextValue(ContextTwin[call.op]))

\* the context and then a recorder were given the same transform, one that
\* is not the identity
C28_Witness ==
    /\ call.op = "vello_recorder_set_transform"
    /\ ~call.failed
    /\ out.given.transform = call.args.affine
    /\ call.args.affine[1].m13 = 4
    /\ call.passed = Some([affine |-> ctx.transform])

\* the characters of a text the font has a glyph for
RECURSIVE Mapped(_)
Mapped(text) ==
    IF text = <<>> THEN 0
    ELSE (IF charmap_map(Head(text)) # None THEN 1 ELSE 0) + Mapped(Tail(text))

\* C29: a text_to_glyphs that succeeds stores an out_count of at most
\* max_glyphs, the smaller of max_glyphs and the number of characters that
\* have a glyph (0 when max_glyphs is 0), and writes the entries below
\* out_count and no other; with a text that is not UTF-8 or a font that
\* does not parse it returns invalid-parameter, and a call that fails
\* writes neither the entries nor out_count.
C29_WritesInsideArray ==
    [][ (CallStep /\ call'.op = "vello_font_data_text_to_glyphs") =>
          LET a == call'.args
          IN  /\ ~call'.failed =>
                   /\ call'.status = VELLO_OK
                   /\ out'.count # None
                   /\ out'.count[1] <= a.max_glyphs
                   /\ out'.count[1] =
                        IF Mapped(a.text[1]) < a.max_glyphs
                        THEN Mapped(a.text[1]) ELSE a.max_glyphs
                   /\ \A i \in DOMAIN GlyphMemory :
                        (out'.glyphs[i] # Unwritten) <=> (i < out'.count[1])
              /\ call'.failed => out' = out
              /\ ( /\ a.font # NULL /\ a.text # NullPtr
                   /\ a.out_glyphs # NULL /\ a.out_count # NULL
                   /\ (a.text[1] = INVALID \/ a.font = BAD_FONT) ) =>
                        /\ call'.status = VELLO_ERROR_INVALID_PARAMETER
                        /\ call'.failed
      ]_vars

\* a text of two characters with a glyph each turned into glyphs with room
\* for one: one entry is written, the memory after it is as it was
C29_Witness ==
    /\ call.op = "vello_font_data_text_to_glyphs"
    /\ call.status = VELLO_OK /\ ~call.failed
    /\ call.args.text = <<(<<"a", "a">>)>>
    /\ call.args.max_glyphs = 1
    /\ out.count = Some(1)
    /\ out.glyphs[0] = [id |-> 1, x |-> 0, y |-> 0]
    /\ out.glyphs[1] = Unwritten

=============================================================================
